---- MODULE Spec2Model ----
(***************************************************************************)
(* Model of the vehicle-recommendation backend: the affordability engine   *)
(* (financial_service.py), the scoring engine (catalog_scoring.py), the    *)
(* weight policy and the conversation merge (ai_agent.py).                 *)
(*                                                                         *)
(* Number representation (Python floats have no TLA+ counterpart):         *)
(*   money            whole dollars                                        *)
(*   ratios (DTI, down-payment ratio, factor scores)  1/10000 (Unit)       *)
(*   affordability_score                              1/100000             *)
(*   weights          1/100 (two decimals, as the weight policy rounds)    *)
(*   interest rates and (1+r)^n                       1/1000000 (ONE)      *)
(* Python strings are TLA+ strings; lower(), replace() and the substring   *)
(* test are computed character by character.                               *)
(***************************************************************************)
EXTENDS Integers, Sequences, FiniteSets, TLC

VARIABLES
    pc,                 \* position of the call being modelled
    cars,               \* CatalogScoringService.cars
    car,                \* evaluate_affordability: argument car
    financial_profile,  \* evaluate_affordability: argument financial_profile
    frame,              \* evaluate_affordability: its local variables
    affordability,      \* evaluate_affordability: the returned AffordabilityResult
    priorities,         \* _priorities_to_weights: argument priorities
    top_priority,       \* _priorities_to_weights: argument top_priority
    weights,            \* _priorities_to_weights: the returned weight map
    user_profile,       \* score_cars_for_user: argument user_profile
    factors,            \* _score_single_car: the factor results, one row per car
    scored_cars,        \* score_cars_for_user: the returned list
    messages,           \* _extract_profiles_from_conversation: argument messages
    msg_index,          \* its loop: index of the next message to process
    merged_user,        \* its local user_profile, merged so far
    merged_financial,   \* its local financial_profile, merged so far
    extracted,          \* its return value, the pair of profiles
    missing_info,       \* _analyze_missing_information: the returned dict
    default_weights,    \* the class attribute CatalogScoringService.DEFAULT_WEIGHTS
    calls,              \* the calls made on the two services, with their results
    tool_call,          \* _execute_tool: arguments tool_name and arguments
    tool_result,        \* _execute_tool: what the call returned or raised
    agent_class,        \* process_message: the class whose method is running
    client,             \* self.client of both agents: an OpenAI client or None
    iteration,          \* process_message: local iteration
    recommended_car_ids_list, \* AIAgent.process_message: local of that name
    scoring_method,     \* AIAgent.process_message: local scoring_method
    last_scored,        \* history: the last list the scoring tool returned in this run
    model_calls,        \* history: the model calls of this run, by tool_choice
    tool_calls_left,    \* message.tool_calls of the last reply still to execute
    process_result,     \* process_message: what it returned to the endpoint
    suggested_json,     \* the file data/suggested.json
    http_response,      \* the response of the request the server handled last
    handlers,           \* the request handlers of the server: one record each
    running             \* the coroutine that holds the event loop, or None

finVars == <<car, financial_profile, frame, affordability>>
weightVars == <<priorities, top_priority, weights>>
scoreVars == <<user_profile, factors, scored_cars>>
convVars == <<messages, msg_index, merged_user, merged_financial, extracted,
              missing_info>>
callVars == <<default_weights, calls>>
loopVars == <<agent_class, client, iteration, recommended_car_ids_list, scoring_method,
              last_scored, model_calls, tool_calls_left, process_result>>
fileVars == <<suggested_json, http_response>>
serverVars == <<handlers, running>>
agentVars == <<tool_call, tool_result, loopVars, fileVars, serverVars>>

vars == <<pc, cars, finVars, weightVars, scoreVars, convVars, callVars, agentVars>>

(***************************************************************************)
(* Python helpers                                                          *)
(***************************************************************************)
\* Python's None, where a string or nothing is expected
None == "None"

\* dict.get(key, default)
Get(d, k, default) == IF k \in DOMAIN d THEN d[k] ELSE default

Min(a, b) == IF a <= b THEN a ELSE b
Max(a, b) == IF a >= b THEN a ELSE b

\* the dict d restricted to the keys in D
Restrict(d, D) == [k \in D |-> d[k]]

\* every dict that carries a subset of the keys of some record of recs
PartialDicts(recs) == UNION { { Restrict(r, D) : D \in SUBSET DOMAIN r } : r \in recs }

\* str.lower() on one character
LowerChar(c) ==
    CASE c = "A" -> "a" [] c = "B" -> "b" [] c = "C" -> "c" [] c = "D" -> "d"
      [] c = "E" -> "e" [] c = "F" -> "f" [] c = "G" -> "g" [] c = "H" -> "h"
      [] c = "I" -> "i" [] c = "J" -> "j" [] c = "K" -> "k" [] c = "L" -> "l"
      [] c = "M" -> "m" [] c = "N" -> "n" [] c = "O" -> "o" [] c = "P" -> "p"
      [] c = "Q" -> "q" [] c = "R" -> "r" [] c = "S" -> "s" [] c = "T" -> "t"
      [] c = "U" -> "u" [] c = "V" -> "v" [] c = "W" -> "w" [] c = "X" -> "x"
      [] c = "Y" -> "y" [] c = "Z" -> "z" [] OTHER -> c

RECURSIVE Lower(_)
Lower(s) ==
    IF Len(s) = 0 THEN ""
    ELSE LowerChar(SubSeq(s, 1, 1)) \o Lower(SubSeq(s, 2, Len(s)))

\* str.replace("_", " ")
RECURSIVE ReplaceUnderscore(_)
ReplaceUnderscore(s) ==
    IF Len(s) = 0 THEN ""
    ELSE (IF SubSeq(s, 1, 1) = "_" THEN " " ELSE SubSeq(s, 1, 1))
             \o ReplaceUnderscore(SubSeq(s, 2, Len(s)))

\* the Python test `term in s` on two strings
Contains(term, s) ==
    \E i \in 1..(Len(s) - Len(term) + 1) : SubSeq(s, i, i + Len(term) - 1) = term

(***************************************************************************)
(* Fixed-point arithmetic for the amortization formula                     *)
(***************************************************************************)
ONE == 1000000
Unit == 10000

\* a * b / ONE for a, b scaled by ONE, split so that no product overflows
MulFix(a, b) ==
    LET a1 == a \div 1000   a0 == a % 1000
        b1 == b \div 1000   b0 == b % 1000
    IN  a1 * b1 + ((a1 * b0 + a0 * b1) \div 1000) + ((a0 * b0) \div ONE)

\* math.pow(base, n) for base scaled by ONE and n >= 0, by repeated squaring
RECURSIVE PowFix(_, _)
PowFix(base, n) ==
    IF n = 0 THEN ONE
    ELSE LET half == PowFix(base, n \div 2)
             square == MulFix(half, half)
         IN  IF n % 2 = 0 THEN square ELSE MulFix(square, base)

\* round(num / den) to the nearest integer, ties to even (den > 0, num >= 0)
RoundDiv(num, den) ==
    LET q == num \div den   r == num % den
    IN  IF 2 * r < den THEN q
        ELSE IF 2 * r > den THEN q + 1
        ELSE IF q % 2 = 0 THEN q ELSE q + 1

\* round(x, 3) of a ratio in 1/10000: the nearest multiple of 10, ties to even
Round3(x) ==
    LET q == x \div 10   r == x % 10
    IN  IF r < 5 THEN 10 * q
        ELSE IF r > 5 THEN 10 * (q + 1)
        ELSE IF q % 2 = 0 THEN 10 * q ELSE 10 * (q + 1)

(***************************************************************************)
(* FinancialService (financial_service.py)                                 *)
(***************************************************************************)
MAX_DTI_RATIO == 1500                     \* 0.15
RECOMMENDED_DTI_RATIO == 1000             \* 0.10
MIN_DOWN_PAYMENT_PERCENT == 1000          \* 0.10
RECOMMENDED_DOWN_PAYMENT_PERCENT == 2000  \* 0.20

INTEREST_RATES ==
    [excellent |-> 54900, good |-> 69900, fair |-> 89900,
     poor |-> 119900, very_poor |-> 159900]

\* A credit score is [int |-> n] (isinstance(credit_score, int)) or [str |-> s].
IsInt(v) == "int" \in DOMAIN v
IsStr(v) == "str" \in DOMAIN v

_get_car_price(c) == Get(c, "base_msrp", 0)

\* _get_interest_rate with the numeric bands opened at their lower ends
_get_interest_rate_StrictBands(credit_score) ==
    IF IsInt(credit_score) THEN
        IF credit_score.int > 750 THEN INTEREST_RATES["excellent"]
        ELSE IF credit_score.int > 700 THEN INTEREST_RATES["good"]
        ELSE IF credit_score.int > 650 THEN INTEREST_RATES["fair"]
        ELSE IF credit_score.int > 600 THEN INTEREST_RATES["poor"]
        ELSE INTEREST_RATES["very_poor"]
    ELSE IF IsStr(credit_score) THEN
        Get(INTEREST_RATES, Lower(credit_score.str), INTEREST_RATES["good"])
    ELSE INTEREST_RATES["good"]

_get_interest_rate(credit_score) ==
    IF IsInt(credit_score) THEN
        IF credit_score.int >= 750 THEN INTEREST_RATES["excellent"]
        ELSE IF credit_score.int >= 700 THEN INTEREST_RATES["good"]
        ELSE IF credit_score.int >= 650 THEN INTEREST_RATES["fair"]
        ELSE IF credit_score.int >= 600 THEN INTEREST_RATES["poor"]
        ELSE INTEREST_RATES["very_poor"]
    ELSE IF IsStr(credit_score) THEN
        Get(INTEREST_RATES, Lower(credit_score.str), INTEREST_RATES["good"])
    ELSE INTEREST_RATES["good"]

\* _calculate_monthly_payment returning the whole loan when the rate is 0
_calculate_monthly_payment_NoTermDivision(loan_amount, annual_interest_rate, loan_term_months) ==
    IF loan_amount <= 0 THEN [raised |-> "", value |-> 0]
    ELSE IF annual_interest_rate = 0 THEN [raised |-> "", value |-> loan_amount]
    ELSE
        LET monthly_rate == annual_interest_rate \div 12
            pw == PowFix(ONE + monthly_rate, loan_term_months)
        IN  IF pw - ONE = 0 THEN [raised |-> "ZeroDivisionError", value |-> 0]
            ELSE [raised |-> "",
                  value |-> (loan_amount * MulFix(monthly_rate, pw)) \div (pw - ONE)]

\* Returns [raised |-> exception name or "", value |-> payment in dollars].
_calculate_monthly_payment(loan_amount, annual_interest_rate, loan_term_months) ==
    IF loan_amount <= 0 THEN [raised |-> "", value |-> 0]
    ELSE IF annual_interest_rate = 0 THEN
        IF loan_term_months = 0 THEN [raised |-> "ZeroDivisionError", value |-> 0]
        ELSE [raised |-> "", value |-> loan_amount \div loan_term_months]
    ELSE
        LET monthly_rate == annual_interest_rate \div 12
            pw == PowFix(ONE + monthly_rate, loan_term_months)
        IN  IF pw - ONE = 0 THEN [raised |-> "ZeroDivisionError", value |-> 0]
            ELSE [raised |-> "",
                  value |-> (loan_amount * MulFix(monthly_rate, pw)) \div (pw - ONE)]

\* _calculate_total_cost_ownership with the depreciation added to the total
_calculate_total_cost_ownership_WithDepreciation(c, car_price, monthly_payment, loan_term_months) ==
    LET months_in_5yr == Min(loan_term_months, 60)
        purchase_cost == monthly_payment * months_in_5yr
        annual_fuel == Get(c, "annual_fuel_cost", 1200)
        annual_insurance == Get(c, "annual_insurance", 1200)
        annual_maintenance == Get(c, "annual_maintenance", 800)
        operating_costs_5yr == (annual_fuel + annual_insurance + annual_maintenance) * 5
        depreciation == (car_price * 60) \div 100
    IN  purchase_cost + operating_costs_5yr + depreciation

_calculate_total_cost_ownership(c, car_price, monthly_payment, loan_term_months) ==
    LET months_in_5yr == Min(loan_term_months, 60)
        purchase_cost == monthly_payment * months_in_5yr
        annual_fuel == Get(c, "annual_fuel_cost", 1200)
        annual_insurance == Get(c, "annual_insurance", 1200)
        annual_maintenance == Get(c, "annual_maintenance", 800)
        operating_costs_5yr == (annual_fuel + annual_insurance + annual_maintenance) * 5
        depreciation == (car_price * 60) \div 100
    IN  purchase_cost + operating_costs_5yr

_determine_affordability(monthly_payment, monthly_income, dti_ratio, down_payment, car_price) ==
    IF monthly_income = 0 THEN FALSE
    ELSE IF dti_ratio > MAX_DTI_RATIO THEN FALSE
    ELSE IF down_payment * Unit < car_price * MIN_DOWN_PAYMENT_PERCENT THEN FALSE
    ELSE TRUE

\* down_payment / car_price if car_price > 0 else 0, in 1/10000
DownPaymentRatio(down_payment, car_price) ==
    IF car_price > 0 THEN (down_payment * Unit) \div car_price ELSE 0

\* _calculate_affordability_score with the two factor weights exchanged
_calculate_affordability_score_Swapped(dti_ratio, down_payment, car_price, monthly_income) ==
    IF monthly_income = 0 THEN 0
    ELSE
        LET dti_score ==
                IF dti_ratio <= RECOMMENDED_DTI_RATIO THEN Unit
                ELSE IF dti_ratio <= MAX_DTI_RATIO THEN
                    Unit - ((dti_ratio - RECOMMENDED_DTI_RATIO) * 4000)
                               \div (MAX_DTI_RATIO - RECOMMENDED_DTI_RATIO)
                ELSE Max(0, 6000 - (dti_ratio - MAX_DTI_RATIO) * 2)
            down_payment_ratio == DownPaymentRatio(down_payment, car_price)
            down_payment_score ==
                IF down_payment_ratio >= RECOMMENDED_DOWN_PAYMENT_PERCENT THEN Unit
                ELSE (down_payment_ratio * Unit) \div RECOMMENDED_DOWN_PAYMENT_PERCENT
            affordability_score == dti_score * 3 + down_payment_score * 7
        IN  Min(10 * Unit, Max(0, affordability_score))

\* the result is in 1/100000: dti_score * 0.7 + down_payment_score * 0.3
_calculate_affordability_score(dti_ratio, down_payment, car_price, monthly_income) ==
    IF monthly_income = 0 THEN 0
    ELSE
        LET dti_score ==
                IF dti_ratio <= RECOMMENDED_DTI_RATIO THEN Unit
                ELSE IF dti_ratio <= MAX_DTI_RATIO THEN
                    Unit - ((dti_ratio - RECOMMENDED_DTI_RATIO) * 4000)
                               \div (MAX_DTI_RATIO - RECOMMENDED_DTI_RATIO)
                ELSE Max(0, 6000 - (dti_ratio - MAX_DTI_RATIO) * 2)
            down_payment_ratio == DownPaymentRatio(down_payment, car_price)
            down_payment_score ==
                IF down_payment_ratio >= RECOMMENDED_DOWN_PAYMENT_PERCENT THEN Unit
                ELSE (down_payment_ratio * Unit) \div RECOMMENDED_DOWN_PAYMENT_PERCENT
            affordability_score == dti_score * 7 + down_payment_score * 3
        IN  Min(10 * Unit, Max(0, affordability_score))

_generate_affordability_reasons(affordable, dti_ratio, down_payment, car_price, monthly_income) ==
    LET down_payment_ratio == DownPaymentRatio(down_payment, car_price)
    IN  IF affordable THEN
            (IF dti_ratio <= RECOMMENDED_DTI_RATIO THEN <<"excellent_payment_ratio">>
             ELSE IF dti_ratio <= MAX_DTI_RATIO THEN <<"acceptable_payment_ratio">>
             ELSE <<>>)
            \o
            (IF down_payment_ratio >= RECOMMENDED_DOWN_PAYMENT_PERCENT
                 THEN <<"strong_down_payment">>
             ELSE IF down_payment_ratio >= MIN_DOWN_PAYMENT_PERCENT
                 THEN <<"adequate_down_payment">>
             ELSE <<>>)
        ELSE
            (IF dti_ratio > MAX_DTI_RATIO THEN <<"payment_too_high_for_income">> ELSE <<>>)
            \o
            (IF down_payment_ratio < MIN_DOWN_PAYMENT_PERCENT
                 THEN <<"insufficient_down_payment">> ELSE <<>>)

_generate_warnings(dti_ratio, down_payment, car_price, credit_score, loan_term_months) ==
    (IF dti_ratio > RECOMMENDED_DTI_RATIO /\ dti_ratio <= MAX_DTI_RATIO
         THEN <<"Payment is higher than recommended 10% of income">>
     ELSE IF dti_ratio > MAX_DTI_RATIO
         THEN <<"Payment exceeds 15% of income - financial strain likely">>
     ELSE <<>>)
    \o
    (IF DownPaymentRatio(down_payment, car_price) < RECOMMENDED_DOWN_PAYMENT_PERCENT
         THEN <<"Less than 20% down - may be underwater on loan">> ELSE <<>>)
    \o
    (IF IsInt(credit_score) /\ credit_score.int < 650
         THEN <<"Credit score may result in high interest rates">>
     ELSE IF IsStr(credit_score) /\ Lower(credit_score.str) \in {"fair", "poor", "very_poor"}
         THEN <<"Credit rating may result in high interest rates">>
     ELSE <<>>)
    \o
    (IF loan_term_months > 60
         THEN <<"Loan term over 5 years - will pay more interest">> ELSE <<>>)

\* monthly_income = financial_profile.get('monthly_income', 0), replaced by
\* annual_income / 12 when annual_income is truthy and monthly_income is not
ResolveMonthlyIncome(fp) ==
    LET monthly_income == Get(fp, "monthly_income", 0)
        annual_income == Get(fp, "annual_income", 0)
    IN  IF annual_income # 0 /\ monthly_income = 0
            THEN annual_income \div 12 ELSE monthly_income

\* ResolveDownPayment without the automatic minimum down payment
ResolveDownPayment_NoDefault(fp, car_price) == Get(fp, "down_payment", 0)

\* down_payment = financial_profile.get('down_payment', 0), auto-calculated
\* as the minimum down payment when it is 0
ResolveDownPayment(fp, car_price) ==
    LET down_payment == Get(fp, "down_payment", 0)
    IN  IF down_payment = 0
            THEN (car_price * MIN_DOWN_PAYMENT_PERCENT) \div Unit ELSE down_payment

\* DtiRatio with the zero-income default dropped to 0.0
DtiRatio_ZeroDefault(monthly_payment, monthly_income) ==
    IF monthly_income > 0 THEN (monthly_payment * Unit) \div monthly_income ELSE 0

\* dti_ratio = monthly_payment / monthly_income if monthly_income > 0 else 1.0
DtiRatio(monthly_payment, monthly_income) ==
    IF monthly_income > 0 THEN (monthly_payment * Unit) \div monthly_income ELSE Unit

\* LoanAmount with a negative difference turned positive instead of zero
LoanAmount_Absolute(car_price, effective_down_payment) ==
    IF car_price - effective_down_payment < 0
        THEN effective_down_payment - car_price
        ELSE car_price - effective_down_payment

\* loan_amount = car_price - effective_down_payment, and 0 when that is negative
LoanAmount(car_price, effective_down_payment) ==
    IF car_price - effective_down_payment < 0
        THEN 0 ELSE car_price - effective_down_payment

\* The local variables of evaluate_affordability up to the debt-to-income ratio.
AffordabilityLocals(c, fp) ==
    LET car_price == _get_car_price(c)
        monthly_income == ResolveMonthlyIncome(fp)
        credit_score == Get(fp, "credit_score", [str |-> "good"])
        loan_term_months == Get(fp, "loan_term_months", 60)
        trade_in_value == Get(fp, "trade_in_value", 0)
        interest_rate == _get_interest_rate(credit_score)
        down_payment == ResolveDownPayment(fp, car_price)
        effective_down_payment == down_payment + trade_in_value
        loan_amount == LoanAmount(car_price, effective_down_payment)
        payment == _calculate_monthly_payment(loan_amount, interest_rate, loan_term_months)
    IN  [car_price |-> car_price, monthly_income |-> monthly_income,
         credit_score |-> credit_score, loan_term_months |-> loan_term_months,
         trade_in_value |-> trade_in_value, interest_rate |-> interest_rate,
         down_payment |-> down_payment,
         effective_down_payment |-> effective_down_payment,
         loan_amount |-> loan_amount, raised |-> payment.raised,
         monthly_payment |-> payment.value,
         dti_ratio |-> DtiRatio(payment.value, monthly_income)]

\* evaluate_affordability: the AffordabilityResult, or the exception it raises.
evaluate_affordability(c, fp) ==
    LET l == AffordabilityLocals(c, fp)
        total_cost_5yr == _calculate_total_cost_ownership(
                              c, l.car_price, l.monthly_payment, l.loan_term_months)
        affordable == _determine_affordability(
                          l.monthly_payment, l.monthly_income, l.dti_ratio,
                          l.down_payment, l.car_price)
    IN  IF l.raised # "" THEN [raised |-> l.raised]
        ELSE [raised |-> "",
              affordable |-> affordable,
              affordability_score |-> _calculate_affordability_score(
                  l.dti_ratio, l.effective_down_payment, l.car_price, l.monthly_income),
              monthly_payment |-> l.monthly_payment,
              down_payment_required |-> l.effective_down_payment,
              total_cost_5yr |-> total_cost_5yr,
              debt_to_income_ratio |-> Round3(l.dti_ratio),
              reasons |-> _generate_affordability_reasons(
                  affordable, l.dti_ratio, l.effective_down_payment,
                  l.car_price, l.monthly_income),
              warnings |-> _generate_warnings(
                  l.dti_ratio, l.effective_down_payment, l.car_price,
                  l.credit_score, l.loan_term_months)]

(***************************************************************************)
(* Inputs of the affordability engine                                      *)
(***************************************************************************)
NoResult == [raised |-> "not called"]
NoFrame == [raised |-> "not called"]
NoWeights == [not_called |-> TRUE]
NoScores == [raised |-> "not called", list |-> <<>>]
NoProfiles == [returned |-> FALSE]
NoAnalysis == [not_called |-> TRUE]
NoToolCall == [not_called |-> TRUE]
NoToolResult == [raised |-> "not called"]
NoList == [no_list |-> TRUE]
NoModelCalls == [auto |-> 0, none |-> 0]
NoReturn == [returned_at |-> "not returned"]
NoFile == [exists |-> FALSE, complete |-> FALSE, data |-> <<>>]
NoResponse == [handler |-> "none"]

\* CatalogScoringService.DEFAULT_WEIGHTS as the class body sets it, in 1/100
DEFAULT_WEIGHTS ==
    [budget |-> 20, fuel_efficiency |-> 20, seating |-> 15, drivetrain |-> 10,
     vehicle_type |-> 10, performance |-> 10, features |-> 10, safety |-> 5]

\* the variables of an engine that the behaviour does not exercise
FinIdle ==
    /\ car = <<>>
    /\ financial_profile = <<>>
    /\ frame = NoFrame
    /\ affordability = NoResult

WeightsIdle ==
    /\ priorities = <<>>
    /\ top_priority = None
    /\ weights = NoWeights

ScoreIdle ==
    /\ user_profile = <<>>
    /\ factors = <<>>
    /\ scored_cars = NoScores

ConvIdle ==
    /\ messages = <<>>
    /\ msg_index = 0
    /\ merged_user = <<>>
    /\ merged_financial = <<>>
    /\ extracted = NoProfiles
    /\ missing_info = NoAnalysis

\* no call logged; the class attribute is as the class body sets it
CallsIdle ==
    /\ default_weights = DEFAULT_WEIGHTS
    /\ calls = <<>>

\* no tool is called
ToolIdle ==
    /\ tool_call = NoToolCall
    /\ tool_result = NoToolResult

\* process_message is not running
LoopIdle ==
    /\ agent_class = None
    /\ client = None
    /\ iteration = 0
    /\ recommended_car_ids_list = <<>>
    /\ scoring_method = None
    /\ last_scored = NoList
    /\ model_calls = NoModelCalls
    /\ tool_calls_left = 0
    /\ process_result = NoReturn

\* the server handles no request
FileIdle ==
    /\ suggested_json = NoFile
    /\ http_response = NoResponse

\* no request is in flight
ServerIdle ==
    /\ handlers = <<>>
    /\ running = None

\* the agent is not called
AgentIdle == ToolIdle /\ LoopIdle /\ FileIdle /\ ServerIdle

FinCars ==
    PartialDicts([base_msrp : {0, 20000, 30000}, annual_fuel_cost : {1500}])
    \cup
    { [base_msrp |-> price, annual_fuel_cost |-> 1500,
       annual_insurance |-> 1000, annual_maintenance |-> 600] : price \in {20000, 30000} }

CreditScores ==
    {[int |-> 800], [int |-> 580], [str |-> "Good"], [str |-> "unknown"]}

FinProfiles ==
    PartialDicts([monthly_income : {0, 3000, 4000},
                  annual_income : {0, 60000},
                  down_payment : {0, 1000, 6000},
                  trade_in_value : {0, 5000},
                  credit_score : CreditScores,
                  loan_term_months : {0, 60, 72}])

(***************************************************************************)
(* The affordability engine as a state machine: one call per behaviour     *)
(***************************************************************************)
InitFin ==
    /\ pc = "call_evaluate_affordability"
    /\ cars = <<>>
    /\ car \in FinCars
    /\ financial_profile \in FinProfiles
    /\ frame = NoFrame
    /\ affordability = NoResult
    /\ WeightsIdle
    /\ ScoreIdle
    /\ ConvIdle
    /\ CallsIdle
    /\ AgentIdle

EvaluateAffordability ==
    /\ pc = "call_evaluate_affordability"
    /\ frame' = AffordabilityLocals(car, financial_profile)
    /\ affordability' = evaluate_affordability(car, financial_profile)
    /\ pc' = "done"
    /\ UNCHANGED <<agentVars, cars, car, financial_profile, weightVars, scoreVars, convVars, callVars>>

NextFin == EvaluateAffordability

SpecFin == InitFin /\ [][NextFin]_vars

Returned == pc = "done" /\ affordability.raised = ""

\* The same call with the credit scores of the tool schema (an integer or a
\* string) swept across the rate bands, for several vehicles and down payments
RateInts == 595..755

RateStrings ==
    {"excellent", "good", "fair", "poor", "very_poor",
     "Excellent", "GOOD", "Fair", "POOR", "Very_Poor", "very poor", "unknown"}

RateProfiles ==
    { [monthly_income |-> 4000, down_payment |-> dp] : dp \in {0, 6000} }
    \cup
    { [monthly_income |-> 4000, down_payment |-> dp, credit_score |-> cs] :
        dp \in {0, 6000},
        cs \in { [int |-> n] : n \in RateInts } \cup { [str |-> s] : s \in RateStrings } }

InitRate ==
    /\ pc = "call_evaluate_affordability"
    /\ cars = <<>>
    /\ car \in { [base_msrp |-> 20000], [base_msrp |-> 30000] }
    /\ financial_profile \in RateProfiles
    /\ frame = NoFrame
    /\ affordability = NoResult
    /\ WeightsIdle
    /\ ScoreIdle
    /\ ConvIdle
    /\ CallsIdle
    /\ AgentIdle

SpecRate == InitRate /\ [][NextFin]_vars

\* The loan and its payment: evaluate_affordability on down payments below,
\* at and above the price, and _calculate_monthly_payment called on its own
\* with loan amounts, rates (0 included) and terms drawn from small sets.
PaymentProfiles ==
    { f \in PartialDicts([down_payment : {0, 6000, 25000},
                          trade_in_value : {5000, 10000},
                          credit_score : {[int |-> 580]},
                          loan_term_months : {0, 36, 72},
                          monthly_income : {4000}]) :
        "monthly_income" \in DOMAIN f }

PaymentArguments ==
    [loan_amount : {0 - 1000, 0, 1, 12000, 24000},
     interest_rate : {0, 54900, 159900},
     loan_term_months : {0, 1, 36, 60, 72},
     raised : {"not called"}]

InitPayment ==
    /\ cars = <<>>
    /\ affordability = NoResult
    /\ WeightsIdle
    /\ ScoreIdle
    /\ ConvIdle
    /\ CallsIdle
    /\ AgentIdle
    /\ \/ /\ pc = "call_evaluate_affordability"
          /\ car \in { [base_msrp |-> price] : price \in {0, 20000, 30000} }
          /\ financial_profile \in PaymentProfiles
          /\ frame = NoFrame
       \/ /\ pc = "call_calculate_monthly_payment"
          /\ car = <<>>
          /\ financial_profile = <<>>
          /\ frame \in PaymentArguments

CalculateMonthlyPayment ==
    /\ pc = "call_calculate_monthly_payment"
    /\ LET payment == _calculate_monthly_payment(
                          frame.loan_amount, frame.interest_rate, frame.loan_term_months)
       IN  frame' = [loan_amount |-> frame.loan_amount,
                     interest_rate |-> frame.interest_rate,
                     loan_term_months |-> frame.loan_term_months,
                     raised |-> payment.raised,
                     monthly_payment |-> payment.value]
    /\ pc' = "done"
    /\ UNCHANGED <<agentVars, cars, car, financial_profile, affordability,
                   weightVars, scoreVars, convVars, callVars>>

NextPayment ==
    \/ EvaluateAffordability
    \/ CalculateMonthlyPayment

SpecPayment == InitPayment /\ [][NextPayment]_vars

(***************************************************************************)
(* The same call made twice: once with the down payment the caller first   *)
(* supplied and once with a raised one, every other input unchanged.  The  *)
(* first call is kept in the log of calls.                                 *)
(***************************************************************************)
DownPayments == {0, 1000, 3000, 6000}

RaiseCars ==
    { [base_msrp |-> price, annual_fuel_cost |-> 1500] : price \in {0, 5000, 20000} }

RaiseProfiles ==
    PartialDicts([monthly_income : {4000},
                  down_payment : DownPayments,
                  trade_in_value : {5000}])

InitRaise ==
    /\ pc = "call_evaluate_affordability"
    /\ cars = <<>>
    /\ car \in RaiseCars
    /\ financial_profile \in RaiseProfiles
    /\ frame = NoFrame
    /\ affordability = NoResult
    /\ WeightsIdle
    /\ ScoreIdle
    /\ ConvIdle
    /\ CallsIdle
    /\ AgentIdle

\* the caller repeats the call with a down payment that is not lower
RaiseDownPayment ==
    /\ pc = "done"
    /\ calls = <<>>
    /\ "down_payment" \in DOMAIN financial_profile
    /\ \E d2 \in DownPayments :
          /\ financial_profile["down_payment"] <= d2
          /\ financial_profile' = [financial_profile EXCEPT !["down_payment"] = d2]
    /\ calls' = <<[tool |-> "evaluate_affordability",
                   argument |-> [car |-> car, financial_profile |-> financial_profile],
                   frame |-> frame,
                   result |-> affordability]>>
    /\ frame' = NoFrame
    /\ affordability' = NoResult
    /\ pc' = "call_evaluate_affordability"
    /\ UNCHANGED <<agentVars, cars, car, weightVars, scoreVars, convVars, default_weights>>

NextRaise ==
    \/ EvaluateAffordability
    \/ RaiseDownPayment

SpecRaise == InitRaise /\ [][NextRaise]_vars

(***************************************************************************)
(* Weight policy: AIAgent._priorities_to_weights (ai_agent.py)             *)
(* Weights before normalization are in 1/42000, so that 0.30 / n is exact  *)
(* for every list length modelled; returned weights are in 1/100.          *)
(***************************************************************************)
WeightScale == 42000
base_weight == 2520             \* 0.06
priority_weight == 12600        \* 0.30
top_priority_weight == 18900    \* 0.45

priority_map ==
    [fuel_efficiency |-> "fuel_efficiency", safety |-> "safety", space |-> "seating",
     performance |-> "performance", budget |-> "budget"]

all_categories ==
    <<"budget", "fuel_efficiency", "seating", "drivetrain",
      "vehicle_type", "performance", "features", "safety">>

Range(seq) == { seq[i] : i \in 1..Len(seq) }

\* d[k] = v, on a dict that may not have the key
Put(d, k, v) == [x \in DOMAIN d \cup {k} |-> IF x = k THEN v ELSE d[x]]

\* [p for p in seq if p != x]
RECURSIVE Without(_, _)
Without(seq, x) ==
    IF seq = <<>> THEN <<>>
    ELSE (IF Head(seq) # x THEN <<Head(seq)>> ELSE <<>>) \o Without(Tail(seq), x)

\* for priority in seq: category = priority_map.get(priority);
\*                      if category: weights[category] = w
RECURSIVE AssignPriorities(_, _, _)
AssignPriorities(d, seq, w) ==
    IF seq = <<>> THEN d
    ELSE LET category == Get(priority_map, Head(seq), None)
         IN  AssignPriorities(IF category # None THEN Put(d, category, w) ELSE d,
                              Tail(seq), w)

\* for category in all_categories: if category not in weights: weights[category] = base_weight
FillBase(d) ==
    [c \in DOMAIN d \cup Range(all_categories) |-> IF c \in DOMAIN d THEN d[c] ELSE base_weight]

\* sum(weights.values())
RECURSIVE SumValues(_)
SumValues(d) ==
    IF DOMAIN d = {} THEN 0
    ELSE LET k == CHOOSE x \in DOMAIN d : TRUE
         IN  d[k] + SumValues(Restrict(d, DOMAIN d \ {k}))

\* Normalize without the division by the total: round(v, 2)
Normalize_NoDivision(d) ==
    [k \in DOMAIN d |-> RoundDiv(100 * d[k], WeightScale)]

\* total = sum(weights.values()); {k: round(v / total, 2) for k, v in weights.items()}
Normalize(d) ==
    LET total == SumValues(d)
    IN  [k \in DOMAIN d |-> RoundDiv(100 * d[k], total)]

\* RawWeights with the top priority treated as any other listed priority
RawWeights_TopAsOthers(prios, top) ==
    FillBase(AssignPriorities(<<>>, prios, priority_weight \div Len(prios)))

\* The weights before normalization.
RawWeights(prios, top) ==
    LET num_priorities == Len(prios)
        seeded ==
            IF top # None /\ top \in Range(prios) THEN
                LET top_category == Get(priority_map, top, None)
                    w0 == IF top_category # None
                              THEN Put(<<>>, top_category, top_priority_weight) ELSE <<>>
                    other_priorities == Without(prios, top)
                IN  IF other_priorities # <<>>
                        THEN AssignPriorities(w0, other_priorities,
                                 priority_weight \div Len(other_priorities))
                        ELSE w0
            ELSE
                LET weight_per_priority ==
                        IF num_priorities = 1 THEN priority_weight
                        ELSE priority_weight \div num_priorities
                IN  AssignPriorities(<<>>, prios, weight_per_priority)
    IN  FillBase(seeded)

_priorities_to_weights(prios, top) ==
    IF Len(prios) = 0 THEN <<>> ELSE Normalize(RawWeights(prios, top))

(***************************************************************************)
(* The weight policy as a state machine: one call per behaviour            *)
(***************************************************************************)
MaxPriorities == 5

PriorityTags == {"fuel_efficiency", "safety", "space", "performance", "budget", "power"}

\* the lists of distinct priority tags of length at most n
RECURSIVE DistinctSeqs(_, _)
DistinctSeqs(S, n) ==
    IF n = 0 THEN {<<>>}
    ELSE LET shorter == DistinctSeqs(S, n - 1)
         IN  shorter \cup
             UNION { { Append(q, x) : x \in S \ { q[i] : i \in 1..Len(q) } } : q \in shorter }

InitWeights ==
    /\ pc = "call_priorities_to_weights"
    /\ cars = <<>>
    /\ FinIdle
    /\ ScoreIdle
    /\ ConvIdle
    /\ CallsIdle
    /\ AgentIdle
    /\ priorities \in DistinctSeqs(PriorityTags, MaxPriorities)
    /\ top_priority \in PriorityTags \cup {None}
    /\ weights = NoWeights

PrioritiesToWeights ==
    /\ pc = "call_priorities_to_weights"
    /\ weights' = _priorities_to_weights(priorities, top_priority)
    /\ pc' = "done"
    /\ UNCHANGED <<agentVars, cars, finVars, scoreVars, convVars, callVars, priorities, top_priority>>

NextWeights == PrioritiesToWeights

SpecWeights == InitWeights /\ [][NextWeights]_vars

(***************************************************************************)
(* CatalogScoringService (catalog_scoring.py)                              *)
(*                                                                         *)
(* A user profile comes from tool-call JSON, so a value's Python type can  *)
(* vary; profile values are tagged with it: [int |-> n], [bool |-> b],     *)
(* [str |-> s], [list |-> seq], [dict |-> d] and PyNone for None.          *)
(* A car record is flat: the key of a nested field stands for its path     *)
(* (base_msrp for specs.pricing.base_msrp).  MPG averages are in tenths,   *)
(* crash_test_score in 1/100, ground clearance in tenths of an inch.       *)
(* A factor function returns [raised, score, reasons].                     *)
(***************************************************************************)
PyNone == [none |-> TRUE]
IsNone(v) == "none" \in DOMAIN v
IsList(v) == "list" \in DOMAIN v

\* bool(v)
Truthy(v) ==
    IF IsNone(v) THEN FALSE
    ELSE IF "bool" \in DOMAIN v THEN v.bool
    ELSE IF "int" \in DOMAIN v THEN v.int # 0
    ELSE IF "str" \in DOMAIN v THEN v.str # ""
    ELSE IF "list" \in DOMAIN v THEN v.list # <<>>
    ELSE IF "dict" \in DOMAIN v THEN DOMAIN v.dict # {}
    ELSE TRUE

Scored(score, reasons) == [raised |-> "", score |-> score, reasons |-> reasons]
Raise(name) == [raised |-> name, score |-> 0, reasons |-> <<>>]

_get_price(c) == Get(c, "base_msrp", 50000)
_get_mpg_city(c) == Get(c, "mpg_city", 25)
_get_mpg_hwy(c) == Get(c, "mpg_hwy", 30)
_get_seating(c) == Get(c, "seats", 5)
_get_drivetrain(c) == Get(c, "drivetrain", "FWD")
_get_body_style(c) == Get(c, "body_style", "sedan")
_get_fuel_type(c) == Get(c, "fuel_type", "gasoline")
_get_safety_score(c) == Get(c, "crash_test_score", 80)
_get_driver_assist_features(c) == Get(c, "driver_assist", <<>>)
_is_offroad_capable(c) == Get(c, "offroad_capable", FALSE)
_get_ground_clearance(c) == Get(c, "ground_clearance_in", 50)
_get_child_seat_fit(c) == Get(c, "rear_seat_child_seat_fit", "good")

\* (mpg_city + mpg_hwy) / 2, in tenths
AvgMpg(c) == 5 * (_get_mpg_city(c) + _get_mpg_hwy(c))

\* _get_weights ignoring the profile's weights
_get_weights_DefaultsOnly(profile) == default_weights

\* custom_weights = profile.get("weights") or {};
\* weights = self.DEFAULT_WEIGHTS.copy(); weights.update(custom_weights).
\* The class attribute is read as it is when the call is made.
_get_weights(profile) ==
    LET w == Get(profile, "weights", PyNone)
        custom_weights == IF Truthy(w) THEN w.dict ELSE <<>>
    IN  [k \in DOMAIN default_weights \cup DOMAIN custom_weights |->
            IF k \in DOMAIN custom_weights THEN custom_weights[k] ELSE default_weights[k]]

\* _score_budget charging the whole price-to-budget ratio
_score_budget_FullRatio(c, profile) ==
    LET budget_max == Get(profile, "budget_max", [int |-> 50000])
        price == _get_price(c)
    IN  IF IsNone(budget_max) THEN Raise("TypeError")
        ELSE IF price <= budget_max.int THEN
            IF budget_max.int = 0 THEN Raise("ZeroDivisionError")
            ELSE Scored(Unit - (price * Unit) \div budget_max.int,
                        <<"within_budget">> \o
                        (IF 10 * price <= 8 * budget_max.int
                             THEN <<"under_budget">> ELSE <<>>))
        ELSE Scored(2000, <<>>)

_score_budget(c, profile) ==
    LET budget_max == Get(profile, "budget_max", [int |-> 50000])
        price == _get_price(c)
    IN  IF IsNone(budget_max) THEN Raise("TypeError")
        ELSE IF price <= budget_max.int THEN
            IF budget_max.int = 0 THEN Raise("ZeroDivisionError")
            ELSE Scored(Unit - (price * 3000) \div budget_max.int,
                        <<"within_budget">> \o
                        (IF 10 * price <= 8 * budget_max.int
                             THEN <<"under_budget">> ELSE <<>>))
        ELSE Scored(2000, <<>>)

\* _score_fuel_efficiency appending 'eco_friendly' after the mpg tag
_score_fuel_efficiency_EcoLast(c, profile) ==
    LET avg_mpg == AvgMpg(c)
        commute == Get(profile, "commute_miles", [int |-> 0])
        reasons == IF _get_fuel_type(c) \in {"hybrid", "electric", "plug_in_hybrid"}
                       THEN <<"eco_friendly">> ELSE <<>>
    IN  IF IsNone(commute) THEN Raise("TypeError")
        ELSE IF commute.int > 30 THEN
            IF avg_mpg >= 400 THEN Scored(Unit, <<"excellent_mpg">> \o reasons)
            ELSE IF avg_mpg >= 300 THEN Scored(8000, <<"good_mpg">> \o reasons)
            ELSE IF avg_mpg >= 250 THEN Scored(6000, <<"decent_mpg">> \o reasons)
            ELSE Scored(3000, reasons)
        ELSE Scored(7000, IF avg_mpg >= 300 THEN <<"good_mpg">> \o reasons ELSE reasons)

_score_fuel_efficiency(c, profile) ==
    LET avg_mpg == AvgMpg(c)
        commute == Get(profile, "commute_miles", [int |-> 0])
        reasons == IF _get_fuel_type(c) \in {"hybrid", "electric", "plug_in_hybrid"}
                       THEN <<"eco_friendly">> ELSE <<>>
    IN  IF IsNone(commute) THEN Raise("TypeError")
        ELSE IF commute.int > 30 THEN
            IF avg_mpg >= 400 THEN Scored(Unit, Append(reasons, "excellent_mpg"))
            ELSE IF avg_mpg >= 300 THEN Scored(8000, Append(reasons, "good_mpg"))
            ELSE IF avg_mpg >= 250 THEN Scored(6000, Append(reasons, "decent_mpg"))
            ELSE Scored(3000, reasons)
        ELSE Scored(7000, IF avg_mpg >= 300 THEN Append(reasons, "good_mpg") ELSE reasons)

_score_seating(c, profile) ==
    LET passengers_needed == Get(profile, "passengers", [int |-> 5])
        seats == _get_seating(c)
    IN  IF IsNone(passengers_needed) THEN Raise("TypeError")
        ELSE IF seats >= passengers_needed.int THEN
            Scored(Unit,
                   <<"enough_seats">>
                   \o (IF seats >= passengers_needed.int + 2 THEN <<"extra_space">> ELSE <<>>)
                   \o (IF /\ Truthy(Get(profile, "has_children", PyNone))
                          /\ _get_child_seat_fit(c) \in {"good", "excellent"}
                           THEN <<"child_seat_friendly">> ELSE <<>>))
        ELSE Scored(2000, <<>>)

_score_drivetrain(c, profile) ==
    LET features_wanted == Get(profile, "features_wanted", [list |-> <<>>])
        terrain == Get(profile, "terrain", [str |-> "mixed"])
        drivetrain == _get_drivetrain(c)
        has_awd == drivetrain \in {"AWD", "4WD"}
    IN  IF IsNone(features_wanted) THEN Raise("TypeError")
        ELSE
            LET wants_awd == \/ "awd" \in Range(features_wanted.list)
                             \/ (~IsNone(terrain) /\ terrain.str = "offroad")
            IN  IF wants_awd /\ has_awd THEN Scored(Unit, <<"awd_match">>)
                ELSE IF wants_awd /\ ~has_awd THEN Scored(4000, <<>>)
                ELSE Scored(8000, <<>>)

\* _score_vehicle_type testing the terrain before has_children
_score_vehicle_type_TerrainFirst(c, profile) ==
    LET has_children == Get(profile, "has_children", [bool |-> FALSE])
        terrain == Get(profile, "terrain", [str |-> "mixed"])
        body_style == _get_body_style(c)
        seats == _get_seating(c)
    IN  IF ~IsNone(terrain) /\ terrain.str = "offroad" THEN
            IF _is_offroad_capable(c) \/ body_style = "truck"
                THEN Scored(Unit, <<"offroad_capable">>)
            ELSE IF _get_ground_clearance(c) >= 80 THEN Scored(8000, <<"good_clearance">>)
            ELSE Scored(5000, <<>>)
        ELSE IF Truthy(has_children) THEN
            IF body_style \in {"suv", "minivan"} \/ seats >= 7
                THEN Scored(Unit, <<"family_friendly">>)
            ELSE IF body_style = "sedan" THEN Scored(7000, <<>>)
            ELSE Scored(5000, <<>>)
        ELSE IF body_style \in {"sedan", "hatchback"} THEN Scored(9000, <<"efficient_choice">>)
        ELSE Scored(8000, <<>>)

_score_vehicle_type(c, profile) ==
    LET has_children == Get(profile, "has_children", [bool |-> FALSE])
        terrain == Get(profile, "terrain", [str |-> "mixed"])
        body_style == _get_body_style(c)
        seats == _get_seating(c)
    IN  IF Truthy(has_children) THEN
            IF body_style \in {"suv", "minivan"} \/ seats >= 7
                THEN Scored(Unit, <<"family_friendly">>)
            ELSE IF body_style = "sedan" THEN Scored(7000, <<>>)
            ELSE Scored(5000, <<>>)
        ELSE IF ~IsNone(terrain) /\ terrain.str = "offroad" THEN
            IF _is_offroad_capable(c) \/ body_style = "truck"
                THEN Scored(Unit, <<"offroad_capable">>)
            ELSE IF _get_ground_clearance(c) >= 80 THEN Scored(8000, <<"good_clearance">>)
            ELSE Scored(5000, <<>>)
        ELSE IF body_style \in {"sedan", "hatchback"} THEN Scored(9000, <<"efficient_choice">>)
        ELSE Scored(8000, <<>>)

_score_performance(c, profile) ==
    LET prios == Get(profile, "priorities", [list |-> <<>>])
        avg_mpg == AvgMpg(c)
    IN  IF IsNone(prios) THEN Raise("TypeError")
        ELSE IF "performance" \in Range(prios.list) \/ "power" \in Range(prios.list) THEN
            IF avg_mpg < 250 THEN Scored(Unit, <<"high_performance">>)
            ELSE IF avg_mpg < 300 THEN Scored(8000, <<"good_power">>)
            ELSE Scored(6000, <<>>)
        ELSE Scored(7000, <<"adequate_power">>)

feature_map ==
    [apple_carplay |-> <<"apple", "carplay">>,
     android_auto |-> <<"android", "auto">>,
     leather_seats |-> <<"leather">>,
     panoramic_sunroof |-> <<"panoramic", "sunroof">>,
     sunroof |-> <<"sunroof">>,
     blind_spot_monitor |-> <<"blind spot", "blind_spot">>,
     adaptive_cruise |-> <<"adaptive cruise", "adaptive_cruise_control">>,
     lane_departure |-> <<"lane", "lane_keep">>,
     hybrid |-> <<"hybrid">>] @@ ("3_row_seating" :> <<"3_row", "three_row">>)

\* [f.lower().replace("_", " ") for f in driver_assist]
DriverAssistLower(c) ==
    LET driver_assist == _get_driver_assist_features(c)
    IN  [i \in 1..Len(driver_assist) |-> ReplaceUnderscore(Lower(driver_assist[i]))]

\* One pass of the loop body of _score_features for one wanted feature:
\* the number of matches it adds and the reasons it appends.
FeatureStep(c, driver_assist_lower, wanted) ==
    LET wanted_lower == Lower(wanted)
        search_terms == Get(feature_map, wanted_lower, <<wanted_lower>>)
        term_found ==
            \E t \in 1..Len(search_terms) :
                \E f \in 1..Len(driver_assist_lower) :
                    Contains(search_terms[t], driver_assist_lower[f])
        term_reasons ==
            IF ~term_found THEN <<>>
            ELSE IF Contains("carplay", wanted_lower) \/ Contains("apple", wanted_lower)
                THEN <<"has_carplay">>
            ELSE IF Contains("cruise", wanted_lower) THEN <<"has_adaptive_cruise">>
            ELSE IF Contains("lane", wanted_lower) THEN <<"has_lane_assist">>
            ELSE <<>>
        hybrid_found ==
            /\ Contains("hybrid", wanted_lower)
            /\ _get_fuel_type(c) \in {"hybrid", "plug_in_hybrid"}
    IN  [matches |-> (IF term_found THEN 1 ELSE 0) + (IF hybrid_found THEN 1 ELSE 0),
         reasons |-> term_reasons \o (IF hybrid_found THEN <<"eco_friendly">> ELSE <<>>)]

\* for wanted in features_wanted: ...
RECURSIVE FeatureLoop(_, _, _)
FeatureLoop(c, driver_assist_lower, wanted_list) ==
    IF wanted_list = <<>> THEN [matches |-> 0, reasons |-> <<>>]
    ELSE LET step == FeatureStep(c, driver_assist_lower, Head(wanted_list))
             rest == FeatureLoop(c, driver_assist_lower, Tail(wanted_list))
         IN  [matches |-> step.matches + rest.matches,
              reasons |-> step.reasons \o rest.reasons]

_score_features(c, profile) ==
    LET features_wanted == Get(profile, "features_wanted", [list |-> <<>>])
    IN  IF ~Truthy(features_wanted) THEN Scored(7000, <<>>)
        ELSE
            LET loop == FeatureLoop(c, DriverAssistLower(c), features_wanted.list)
                n == Len(features_wanted.list)
            IN  Scored((loop.matches * Unit) \div n,
                       loop.reasons \o
                       (IF 10 * loop.matches >= 8 * n THEN <<"feature_rich">> ELSE <<>>))

_score_safety(c, profile) ==
    LET safety_score == _get_safety_score(c)
        driver_assist == _get_driver_assist_features(c)
        bonus == IF Len(driver_assist) >= 5 THEN <<"advanced_safety_features">> ELSE <<>>
    IN  IF safety_score >= 90 THEN Scored(Unit, <<"top_safety">> \o bonus)
        ELSE IF safety_score >= 80 THEN Scored(9000, <<"excellent_safety">> \o bonus)
        ELSE IF safety_score >= 70 THEN Scored(7000, bonus)
        ELSE Scored(5000, bonus)

\* The eight factor results in evaluation order.
FactorResults(c, profile) ==
    <<_score_budget(c, profile), _score_fuel_efficiency(c, profile),
      _score_seating(c, profile), _score_drivetrain(c, profile),
      _score_vehicle_type(c, profile), _score_performance(c, profile),
      _score_features(c, profile), _score_safety(c, profile)>>

FactorNames ==
    <<"budget", "fuel_efficiency", "seating", "drivetrain",
      "vehicle_type", "performance", "features", "safety">>

\* score += weights[name] * factor_score; reasons.extend(factor_reasons), for
\* the factors from position i on.  The score is in 1/1000000.
RECURSIVE Accumulate(_, _, _)
Accumulate(results, w, i) ==
    IF i > Len(results) THEN Scored(0, <<>>)
    ELSE IF results[i].raised # "" THEN Raise(results[i].raised)
    ELSE LET rest == Accumulate(results, w, i + 1)
         IN  IF rest.raised # "" THEN rest
             ELSE Scored(w[FactorNames[i]] * results[i].score + rest.score,
                         results[i].reasons \o rest.reasons)

_score_single_car(c, profile) ==
    Accumulate(FactorResults(c, profile), _get_weights(profile), 1)

\* round(score, 2): from 1/1000000 to 1/100
Round2(score) ==
    IF score >= 0 THEN RoundDiv(score, Unit) ELSE 0 - RoundDiv(0 - score, Unit)

\* InsertDesc placing x before the entries of equal score (an unstable sort)
RECURSIVE InsertDesc_BeforeEqual(_, _)
InsertDesc_BeforeEqual(sorted, x) ==
    IF sorted = <<>> THEN <<x>>
    ELSE IF Head(sorted).score > x.score
        THEN <<Head(sorted)>> \o InsertDesc_BeforeEqual(Tail(sorted), x)
    ELSE <<x>> \o sorted

\* insert x after the entries whose score is at least x.score
RECURSIVE InsertDesc(_, _)
InsertDesc(sorted, x) ==
    IF sorted = <<>> THEN <<x>>
    ELSE IF Head(sorted).score >= x.score
        THEN <<Head(sorted)>> \o InsertDesc(Tail(sorted), x)
    ELSE <<x>> \o sorted

\* scored_cars.sort(key=lambda x: x["score"], reverse=True): a stable sort
RECURSIVE SortByScoreDesc(_)
SortByScoreDesc(seq) ==
    IF seq = <<>> THEN <<>>
    ELSE InsertDesc(SortByScoreDesc(SubSeq(seq, 1, Len(seq) - 1)), seq[Len(seq)])

\* the loop of score_cars_for_user over the catalog, from car i on
RECURSIVE ScoreLoop(_, _, _)
ScoreLoop(catalog, profile, i) ==
    IF i > Len(catalog) THEN [raised |-> "", list |-> <<>>]
    ELSE LET one == _score_single_car(catalog[i], profile)
         IN  IF one.raised # "" THEN [raised |-> one.raised, list |-> <<>>]
             ELSE LET rest == ScoreLoop(catalog, profile, i + 1)
                  IN  IF rest.raised # "" THEN rest
                      ELSE [raised |-> "",
                            list |-> <<[id |-> catalog[i].id,
                                        score |-> Round2(one.score),
                                        reasons |-> one.reasons]>> \o rest.list]

\* score_cars_for_user: the sorted list, or the exception it raises
score_cars_for_user(catalog, profile) ==
    LET loop == ScoreLoop(catalog, profile, 1)
    IN  IF loop.raised # "" THEN [raised |-> loop.raised, list |-> <<>>]
        ELSE [raised |-> "", list |-> SortByScoreDesc(loop.list)]

(***************************************************************************)
(* The scoring engine as a state machine: one call per behaviour           *)
(***************************************************************************)
MaxCars == 2

Prius(id) ==
    [id |-> id, base_msrp |-> 28000, mpg_city |-> 57, mpg_hwy |-> 56, seats |-> 5,
     drivetrain |-> "FWD", body_style |-> "hatchback", fuel_type |-> "hybrid",
     crash_test_score |-> 90,
     driver_assist |-> <<"Lane_Departure_Alert", "Adaptive_Cruise_Control",
                         "Hybrid_System_Indicator">>,
     offroad_capable |-> FALSE, ground_clearance_in |-> 53,
     rear_seat_child_seat_fit |-> "good"]

FourRunner ==
    [id |-> "4runner-trd-2022", base_msrp |-> 42000, mpg_city |-> 16, mpg_hwy |-> 19,
     seats |-> 7, drivetrain |-> "4WD", body_style |-> "suv", fuel_type |-> "gasoline",
     crash_test_score |-> 75, driver_assist |-> <<"Pre_Collision_System">>,
     offroad_capable |-> TRUE, ground_clearance_in |-> 96,
     rear_seat_child_seat_fit |-> "fair"]

\* a record with no specs: every getter falls back to its default
Bare == [id |-> "camry-le-2018"]

CarPool == {Prius("prius-le-2020"), Prius("prius-xle-2020"), FourRunner, Bare}

Catalogs == DistinctSeqs(CarPool, MaxCars)

WeightOverrides ==
    {PyNone,
     [dict |-> <<>>],
     [dict |-> [fuel_efficiency |-> 90]],
     [dict |-> _priorities_to_weights(<<"fuel_efficiency", "safety">>, "fuel_efficiency")]}

UserProfiles ==
    PartialDicts([budget_max : {PyNone, [int |-> 0], [int |-> 30000]},
                  passengers : {PyNone, [int |-> 7]},
                  commute_miles : {[int |-> 60]},
                  has_children : {[bool |-> TRUE]},
                  terrain : {[str |-> "offroad"]},
                  features_wanted : {PyNone, [list |-> <<"hybrid">>],
                                     [list |-> <<"awd", "Lane_Departure", "sunroof">>]},
                  priorities : {[list |-> <<"performance">>]},
                  weights : WeightOverrides])

InitScore ==
    /\ pc = "call_score_cars_for_user"
    /\ cars \in Catalogs
    /\ FinIdle
    /\ WeightsIdle
    /\ ConvIdle
    /\ CallsIdle
    /\ AgentIdle
    /\ user_profile \in UserProfiles
    /\ factors = <<>>
    /\ scored_cars = NoScores

ScoreCarsForUser ==
    /\ pc = "call_score_cars_for_user"
    /\ factors' = [i \in 1..Len(cars) |-> FactorResults(cars[i], user_profile)]
    /\ scored_cars' = score_cars_for_user(cars, user_profile)
    /\ pc' = "done"
    /\ UNCHANGED <<agentVars, cars, finVars, weightVars, convVars, callVars, user_profile>>

NextScore == ScoreCarsForUser

SpecScore == InitScore /\ [][NextScore]_vars

\* The same call on a catalog of one vehicle, with prices, fuel economies,
\* body styles and profiles on both sides of every threshold of the budget,
\* fuel-efficiency and vehicle-type factors
PricedCars ==
    { [id |-> "priced", base_msrp |-> price] :
        price \in {0, 36000, 40000, 41000, 45000, 50000, 51000, 60000} }

FuelCars ==
    { [id |-> "fuel", mpg_city |-> city, mpg_hwy |-> 30, fuel_type |-> fuel] :
        city \in {19, 20, 29, 30, 49, 50},
        fuel \in {"gasoline", "diesel", "hybrid", "electric", "plug_in_hybrid"} }

TypedCars ==
    { [id |-> "typed", body_style |-> style, seats |-> seats,
       offroad_capable |-> offroad, ground_clearance_in |-> clearance] :
        style \in {"suv", "minivan", "sedan", "hatchback", "truck", "coupe"},
        seats \in {5, 7}, offroad \in BOOLEAN, clearance \in {79, 80} }

FactorCars == PricedCars \cup FuelCars \cup TypedCars \cup {Bare}

FactorProfiles ==
    PartialDicts([budget_max : {PyNone, [int |-> 0], [int |-> 45000], [int |-> 50000]},
                  commute_miles : {PyNone, [int |-> 30], [int |-> 31]},
                  has_children : {[bool |-> TRUE], [bool |-> FALSE]},
                  terrain : {[str |-> "offroad"], [str |-> "city"]}])

InitFactor ==
    /\ pc = "call_score_cars_for_user"
    /\ cars \in { <<c>> : c \in FactorCars }
    /\ FinIdle
    /\ WeightsIdle
    /\ ConvIdle
    /\ CallsIdle
    /\ AgentIdle
    /\ user_profile \in FactorProfiles
    /\ factors = <<>>
    /\ scored_cars = NoScores

SpecFactor == InitFactor /\ [][NextScore]_vars

(***************************************************************************)
(* Conversation: the extractors and the merge of                           *)
(* AIAgent._extract_profiles_from_conversation (ai_agent.py)               *)
(* A message is a ChatMessage [role, content] whose content is the text.   *)
(* Keyword tests (`word in message_lower`) are computed on the text; the   *)
(* results of re.search are tabulated for the modelled sentences, and the  *)
(* code around each search (the loops over patterns, the nearby-text       *)
(* checks, the scaling by 1000) is computed from them.                     *)
(* A user profile holds tagged values, as the scoring engine reads them;   *)
(* a financial profile holds what the affordability engine reads.          *)
(***************************************************************************)
\* any(word in s for word in words)
AnyIn(words, s) == \E word \in words : Contains(word, s)

\* s.find(sub) for a sub that occurs in s (0-based)
Find(sub, s) ==
    (CHOOSE i \in 1..Len(s) :
        /\ SubSeq(s, i, i + Len(sub) - 1) = sub
        /\ \A j \in 1..(i - 1) : SubSeq(s, j, j + Len(sub) - 1) # sub) - 1

\* s[max(0, start - before) : start + after] around the first occurrence of sub
NearbyText(sub, s, before, after) ==
    LET match_start == Find(sub, s)
    IN  SubSeq(s, Max(0, match_start - before) + 1, Min(match_start + after, Len(s)))

\* For each modelled sentence (lower-cased) and each list of patterns, the
\* matches of re.search in the order of the list: group(0) and group(1).
\* A list of patterns without a match on the sentence is left out.
SearchResults ==
  <<
    [ content |-> "I need a car under $30k with AWD",
      message_lower |-> "i need a car under $30k with awd",
      budget_patterns |->
          << [group0 |-> "under $30k", group1 |-> 30] >> ],
    [ content |-> "Actually, my budget is $40k for a hybrid and my top priority is safety",
      message_lower |-> "actually, my budget is $40k for a hybrid and my top priority is safety",
      budget_patterns |->
          << [group0 |-> "budget is $40k", group1 |-> 40] >>,
      priority_phrases |->
          << [group0 |-> "top priority is safety", group1 |-> "safety"],
             [group0 |-> "priority is safety", group1 |-> "safety"] >> ],
    [ content |-> "I want good fuel economy, a hybrid with leather seats",
      message_lower |-> "i want good fuel economy, a hybrid with leather seats" ],
    [ content |-> "I have bad credit and make $50k per year",
      message_lower |-> "i have bad credit and make $50k per year",
      income_patterns |->
          << [group0 |-> "$50k per year", group1 |-> 50],
             [group0 |-> "make $50k per year", group1 |-> 50],
             [group0 |-> "make $50k", group1 |-> 50] >> ],
    [ content |-> "My credit score is 720 and I make $5000 per month with $3000 down",
      message_lower |-> "my credit score is 720 and i make $5000 per month with $3000 down",
      monthly_patterns |->
          << [group0 |-> "$5000 per month", group1 |-> 5000] >>,
      down_payment_patterns |->
          << [group0 |-> "$3000 down", group1 |-> 3000] >>,
      credit_patterns |->
          << [group0 |-> "credit score is 720", group1 |-> 720] >> ],
    [ content |-> "My income is 4000",
      message_lower |-> "my income is 4000",
      ambiguous_income_patterns |->
          << [group0 |-> "income is 4000", group1 |-> 4000] >> ]
  >>

\* the matches of one list of patterns on a message, in list order
re_search(patterns, message_lower) ==
    LET row == CHOOSE r \in Range(SearchResults) : r.message_lower = message_lower
    IN  Get(row, patterns, <<>>)

\* dict.update: the keys of other are set in d
Update(d, other) ==
    [k \in DOMAIN d \cup DOMAIN other |-> IF k \in DOMAIN other THEN other[k] ELSE d[k]]

\* d after the assignments of each dict of the sequence, in order
RECURSIVE UpdateAll(_, _)
UpdateAll(d, dicts) ==
    IF dicts = <<>> THEN d ELSE UpdateAll(Update(d, Head(dicts)), Tail(dicts))

\* int(group) * 1000 when the text says k, else int(group)
Thousands(n, has_k) == IF has_k THEN n * 1000 ELSE n

top_priority_words ==
    [trunk |-> "space", cargo |-> "space", space |-> "space", storage |-> "space",
     fuel |-> "fuel_efficiency", mpg |-> "fuel_efficiency",
     gas |-> "fuel_efficiency", efficient |-> "fuel_efficiency",
     safety |-> "safety", safe |-> "safety",
     performance |-> "performance", power |-> "performance",
     price |-> "budget", cost |-> "budget", budget |-> "budget"]

feature_keywords ==
    << [feature |-> "awd",
        keywords |-> {"awd", "all wheel", "all-wheel", "4wd", "four wheel"}],
       [feature |-> "hybrid", keywords |-> {"hybrid", "electric", "plug-in", "eco"}],
       [feature |-> "3_row_seating",
        keywords |-> {"3 row", "three row", "7 seat", "8 seat"}],
       [feature |-> "adaptive_cruise", keywords |-> {"adaptive cruise", "cruise control"}],
       [feature |-> "leather_seats", keywords |-> {"leather"}],
       [feature |-> "sunroof", keywords |-> {"sunroof", "panoramic"}] >>

priority_keywords ==
    << [priority |-> "fuel_efficiency",
        keywords |-> {"fuel", "mpg", "gas", "efficient", "economy"}],
       [priority |-> "safety", keywords |-> {"safe", "safety"}],
       [priority |-> "space",
        keywords |-> {"space", "spacious", "room", "cargo", "trunk", "storage",
                      "equipment", "luggage", "gear"}],
       [priority |-> "performance",
        keywords |-> {"performance", "power", "fast", "sporty"}] >>

\* the entries of table, in order, whose keywords occur in the message
RECURSIVE Mentioned(_, _, _)
Mentioned(table, name, message_lower) ==
    IF table = <<>> THEN <<>>
    ELSE (IF AnyIn(Head(table).keywords, message_lower)
          THEN <<Head(table)[name]>> ELSE <<>>)
         \o Mentioned(Tail(table), name, message_lower)

\* the budget keys of the profile: the first match without "down" nearby
ExtractBudget(message_lower) ==
    LET is_total_cost ==
            AnyIn({"after all costs", "total cost", "out the door", "otd",
                   "including all", "all included", "total price",
                   "all costs included"}, message_lower)
        NotNearDown(m) == ~Contains("down", NearbyText(m.group0, message_lower, 20, 50))
        accepted == SelectSeq(re_search("budget_patterns", message_lower), NotNearDown)
        match == Head(accepted)
        budget_value == Thousands(match.group1, Contains("k", match.group0))
    IN  IF accepted = <<>> THEN <<>>
        ELSE IF is_total_cost THEN
            [budget_max |-> [int |-> budget_value],
             budget_is_total_cost |-> [bool |-> TRUE],
             budget_max_estimated_base |-> [int |-> (budget_value * 88) \div 100]]
        ELSE
            [budget_max |-> [int |-> budget_value],
             budget_is_total_cost |-> [bool |-> FALSE]]

\* the first match of a list of patterns as one integer key, or no key
ExtractNumber(key, patterns, message_lower) ==
    LET matches == re_search(patterns, message_lower)
    IN  IF matches = <<>> THEN <<>> ELSE Put(<<>>, key, [int |-> Head(matches).group1])

ExtractTerrain(message_lower) ==
    IF AnyIn({"pothole", "speed bump", "speedbump", "rough road", "rough roads",
              "bumpy", "uneven", "ground clearance", "clearance", "suspension"},
             message_lower)
    THEN [needs_ground_clearance |-> [bool |-> TRUE], terrain |-> [str |-> "rough_city"]]
    ELSE IF AnyIn({"offroad", "off-road", "trail", "mountain"}, message_lower)
    THEN [terrain |-> [str |-> "offroad"]]
    ELSE IF AnyIn({"highway", "freeway", "long distance"}, message_lower)
    THEN [terrain |-> [str |-> "highway"]]
    ELSE IF AnyIn({"city", "urban", "downtown"}, message_lower)
    THEN [terrain |-> [str |-> "city"]]
    ELSE <<>>

\* the keys priorities, top_priority and weights of the profile
ExtractPriorities(message_lower) ==
    LET matches == re_search("priority_phrases", message_lower)
        top == IF matches = <<>> THEN None
               ELSE Get(top_priority_words, Head(matches).group1, None)
        mentioned == Mentioned(priority_keywords, "priority", message_lower)
        prios == IF top = None THEN mentioned ELSE <<top>> \o Without(mentioned, top)
    IN  IF prios = <<>> THEN <<>>
        ELSE Update(
                 [priorities |-> [list |-> prios],
                  weights |-> [dict |-> _priorities_to_weights(prios, top)]]
                 , IF top = None THEN <<>> ELSE [top_priority |-> [str |-> top]])

_extract_user_profile(message) ==
    LET message_lower == Lower(message)
        features == Mentioned(feature_keywords, "feature", message_lower)
        parts ==
            << ExtractBudget(message_lower),
               IF AnyIn({"flexible", "can go higher", "not strict", "can adjust"},
                        message_lower)
               THEN [budget_flexible |-> [bool |-> TRUE]] ELSE <<>>,
               ExtractNumber("passengers", "passenger_patterns", message_lower),
               ExtractNumber("commute_miles", "commute_patterns", message_lower),
               IF AnyIn({"family", "kids", "children", "child", "baby"}, message_lower)
               THEN [has_children |-> [bool |-> TRUE]] ELSE <<>>,
               ExtractTerrain(message_lower),
               IF features = <<>> THEN <<>>
               ELSE [features_wanted |-> [list |-> features]],
               ExtractPriorities(message_lower) >>
        profile == UpdateAll(<<>>, parts)
    IN  IF profile = <<>> THEN PyNone ELSE profile

\* monthly_income, annual_income or ambiguous_income: at most one of them
ExtractIncome(message_lower) ==
    LET monthly == re_search("monthly_patterns", message_lower)
        has_income_keywords ==
            AnyIn({"make", "earn", "income", "salary", "wage"}, message_lower)
        has_budget_context == Contains("budget", message_lower) /\ ~has_income_keywords
        NotNearBudget(m) ==
            ~Contains("budget", NearbyText(m.group0, message_lower, 30, 50))
        NotNearBudgetOrDown(m) ==
            LET nearby_text == NearbyText(m.group0, message_lower, 30, 50)
            IN  ~Contains("budget", nearby_text) /\ ~Contains("down", nearby_text)
        annual == IF has_budget_context THEN <<>>
                  ELSE SelectSeq(re_search("income_patterns", message_lower),
                                 NotNearBudget)
        ambiguous == SelectSeq(re_search("ambiguous_income_patterns", message_lower),
                               NotNearBudgetOrDown)
    IN  IF monthly # <<>> THEN
            LET m == Head(monthly)
            IN  [monthly_income |->
                    Thousands(m.group1, Contains("k", m.group0) \/ m.group1 < 100)]
        ELSE IF annual # <<>> THEN
            LET m == Head(annual)
            IN  [annual_income |->
                    Thousands(m.group1, Contains("k", m.group0) \/ m.group1 < 1000)]
        ELSE IF ambiguous # <<>> THEN
            LET m == Head(ambiguous)
                has_k == Contains("k", m.group0)
            IN  [ambiguous_income |-> Thousands(m.group1, has_k),
                 ambiguous_income_likely_annual |->
                    IF has_k THEN TRUE
                    ELSE IF 1000 <= m.group1 /\ m.group1 <= 20000 THEN FALSE
                    ELSE m.group1 > 20000]
        ELSE <<>>

\* down_payment and trade_in_value: thousands when the message has a "k" anywhere
ExtractAmount(key, patterns, message_lower) ==
    LET matches == re_search(patterns, message_lower)
        amount == Head(matches).group1
    IN  IF matches = <<>> THEN <<>>
        ELSE Put(<<>>, key,
                 Thousands(amount, Contains("k", message_lower) \/ amount < 1000))

ExtractCreditScore(message_lower) ==
    LET matches == re_search("credit_patterns", message_lower)
    IN  IF matches # <<>> THEN [credit_score |-> [int |-> Head(matches).group1]]
        ELSE IF AnyIn({"excellent credit", "great credit"}, message_lower)
        THEN [credit_score |-> [str |-> "excellent"]]
        ELSE IF Contains("good credit", message_lower)
        THEN [credit_score |-> [str |-> "good"]]
        ELSE IF AnyIn({"fair credit", "average credit"}, message_lower)
        THEN [credit_score |-> [str |-> "fair"]]
        ELSE IF AnyIn({"poor credit", "bad credit"}, message_lower)
        THEN [credit_score |-> [str |-> "poor"]]
        ELSE <<>>

ExtractLoanTerm(message_lower) ==
    LET matches == re_search("loan_term_patterns", message_lower)
    IN  IF matches = <<>> THEN <<>>
        ELSE [loan_term_months |-> Head(matches).group1 * 12]

_extract_financial_profile(message) ==
    LET message_lower == Lower(message)
        parts ==
            << ExtractIncome(message_lower),
               ExtractAmount("down_payment", "down_payment_patterns", message_lower),
               ExtractCreditScore(message_lower),
               ExtractLoanTerm(message_lower),
               ExtractAmount("trade_in_value", "trade_in_patterns", message_lower) >>
        profile == UpdateAll(<<>>, parts)
    IN  IF profile = <<>> THEN PyNone ELSE profile

\* `for key, value in current_user.items()`: weights are merged key by key;
\* priorities, features_wanted and every other key are assigned.
MergeUser_KeepEarlier(profile, current_user) ==
    [key \in DOMAIN profile \cup DOMAIN current_user |->
        IF key \in DOMAIN profile THEN profile[key] ELSE current_user[key]]

MergeUser(profile, current_user) ==
    [key \in DOMAIN profile \cup DOMAIN current_user |->
        IF key \notin DOMAIN current_user THEN profile[key]
        ELSE IF key = "weights" /\ Truthy(current_user[key]) THEN
            [dict |-> Update(IF "weights" \in DOMAIN profile
                             THEN profile["weights"].dict ELSE <<>>,
                             current_user[key].dict)]
        ELSE current_user[key]]

\* `for key, value in current_financial.items(): financial_profile[key] = value`
MergeFinancial(profile, current_financial) == Update(profile, current_financial)

\* `profile if profile else None`
OrNone(profile) == IF profile = <<>> THEN PyNone ELSE profile

(***************************************************************************)
(* The merge as a state machine: one step per message of the conversation  *)
(***************************************************************************)
MaxMessages == 3

\* the sentence that states an income without a period is kept for the
\* conversations about income (IncomeContents)
AmbiguousIncomeContent == "My income is 4000"

Contents == { row.content : row \in Range(SearchResults) } \ {AmbiguousIncomeContent}

ChatMessages == [role : {"user", "agent"}, content : Contents]

Conversations == UNION { [1..n -> ChatMessages] : n \in 0..MaxMessages }

InitConv ==
    /\ pc = "merge_loop"
    /\ cars = <<>>
    /\ messages \in Conversations
    /\ msg_index = 1
    /\ merged_user = <<>>
    /\ merged_financial = <<>>
    /\ extracted = NoProfiles
    /\ missing_info = NoAnalysis
    /\ FinIdle
    /\ WeightsIdle
    /\ ScoreIdle
    /\ CallsIdle
    /\ AgentIdle

\* `if not messages: return (None, None)`
ReturnNoMessages ==
    /\ pc = "merge_loop"
    /\ messages = <<>>
    /\ extracted' = [returned |-> TRUE, user_profile |-> PyNone,
                     financial_profile |-> PyNone]
    /\ pc' = "done"
    /\ UNCHANGED <<agentVars, cars, finVars, weightVars, scoreVars, callVars,
                   messages, msg_index, merged_user, merged_financial, missing_info>>

\* the loop body for a message with role "user"
MergeUserMessage ==
    /\ pc = "merge_loop"
    /\ msg_index <= Len(messages)
    /\ messages[msg_index].role = "user"
    /\ LET msg == messages[msg_index]
           current_user == _extract_user_profile(msg.content)
           current_financial == _extract_financial_profile(msg.content)
       IN  /\ merged_user' = IF current_user # PyNone
                             THEN MergeUser(merged_user, current_user)
                             ELSE merged_user
           /\ merged_financial' = IF current_financial # PyNone
                                  THEN MergeFinancial(merged_financial, current_financial)
                                  ELSE merged_financial
    /\ msg_index' = msg_index + 1
    /\ UNCHANGED <<agentVars, pc, cars, finVars, weightVars, scoreVars, callVars, messages, extracted,
                   missing_info>>

\* the loop body for any other message: `if msg.role == "user"` is false
SkipAgentMessage ==
    /\ pc = "merge_loop"
    /\ msg_index <= Len(messages)
    /\ messages[msg_index].role # "user"
    /\ msg_index' = msg_index + 1
    /\ UNCHANGED <<agentVars, pc, cars, finVars, weightVars, scoreVars, callVars,
                   messages, merged_user, merged_financial, extracted, missing_info>>

\* the return after the loop
ReturnProfiles ==
    /\ pc = "merge_loop"
    /\ messages # <<>>
    /\ msg_index > Len(messages)
    /\ extracted' = [returned |-> TRUE, user_profile |-> OrNone(merged_user),
                     financial_profile |-> OrNone(merged_financial)]
    /\ pc' = "done"
    /\ UNCHANGED <<agentVars, cars, finVars, weightVars, scoreVars, callVars,
                   messages, msg_index, merged_user, merged_financial, missing_info>>

NextConv ==
    \/ ReturnNoMessages
    \/ MergeUserMessage
    \/ SkipAgentMessage
    \/ ReturnProfiles

SpecConv == InitConv /\ [][NextConv]_vars

(***************************************************************************)
(* The missing-information analysis of the merged profiles                 *)
(***************************************************************************)
\* f"{n:03d}" for 0 <= n < 1000
Pad3(n) ==
    IF n < 10 THEN "00" \o ToString(n)
    ELSE IF n < 100 THEN "0" \o ToString(n)
    ELSE ToString(n)

\* f"${amount:,}" when amount >= 1000, else f"${amount}"
AmountStr(amount) ==
    IF amount >= 1000000 THEN
        "$" \o ToString(amount \div 1000000) \o "," \o Pad3((amount \div 1000) % 1000)
            \o "," \o Pad3(amount % 1000)
    ELSE IF amount >= 1000 THEN
        "$" \o ToString(amount \div 1000) \o "," \o Pad3(amount % 1000)
    ELSE "$" \o ToString(amount)

\* `profile.get(key)` is None, 0, empty or False, for a merged user profile
\* (tagged values) that may be None
UserFalsy(profile, key) ==
    \/ profile = PyNone
    \/ key \notin DOMAIN profile
    \/ ~Truthy(profile[key])

\* the flags of missing_info, before the questions are built
MissingFlags(profile, fin) ==
    LET no_user == profile = PyNone
        no_fin == fin = PyNone
        ambiguous == ~no_fin /\ Get(fin, "ambiguous_income", 0) # 0
    IN  [needs_budget |-> UserFalsy(profile, "budget_max"),
         needs_passengers |-> UserFalsy(profile, "passengers"),
         needs_income |-> no_fin \/ (~ambiguous /\ Get(fin, "annual_income", 0) = 0
                                                /\ Get(fin, "monthly_income", 0) = 0),
         needs_income_clarification |-> ambiguous,
         ambiguous_income_amount |->
             IF ambiguous THEN fin["ambiguous_income"] ELSE None,
         ambiguous_income_likely_annual |->
             IF ambiguous THEN Get(fin, "ambiguous_income_likely_annual", None)
             ELSE None,
         needs_credit |-> no_fin \/ "credit_score" \notin DOMAIN fin
                              \/ ~Truthy(fin["credit_score"]),
         needs_down_payment |-> no_fin \/ Get(fin, "down_payment", 0) = 0,
         needs_priorities |-> UserFalsy(profile, "priorities"),
         needs_features |-> UserFalsy(profile, "features_wanted"),
         needs_commute |-> no_user \/ (UserFalsy(profile, "terrain")
                                          /\ UserFalsy(profile, "commute_miles"))]

\* the question about an income stated without a period
ClarificationQuestion(flags) ==
    LET amount_str == AmountStr(flags.ambiguous_income_amount)
        likely_annual == flags.ambiguous_income_likely_annual
    IN  IF likely_annual = TRUE THEN
            "Is your income of " \o amount_str
                \o " per year or per month? (This helps calculate exact monthly payments)"
        ELSE IF likely_annual = FALSE THEN
            "Is your income of " \o amount_str
                \o " per month or per year? (This helps calculate exact monthly payments)"
        ELSE
            "Is your income of " \o amount_str
                \o " per month or per year? (This is important for calculating monthly payments accurately)"

affordability_keywords ==
    {"afford", "budget", "payment", "cost", "price", "expensive", "cheap"}

\* questions.append(q) under its condition
When(condition, question) == IF condition THEN <<question>> ELSE <<>>

SuggestedQuestions(flags, user_message) ==
    LET is_affordability_query == AnyIn(affordability_keywords, Lower(user_message))
        ask_income == flags.needs_income /\ ~flags.needs_income_clarification
    IN  When(flags.needs_income_clarification, ClarificationQuestion(flags))
        \o (IF is_affordability_query THEN
                When(ask_income, "What is your monthly or annual income?")
                \o When(flags.needs_credit,
                        "What is your credit score range (excellent, good, fair, or a specific number)?")
                \o When(flags.needs_down_payment,
                        "How much can you put down as a down payment?")
            ELSE
                When(ask_income,
                     "What is your monthly or annual income? (optional, but helps with affordability analysis)")
                \o When(flags.needs_credit,
                        "What is your credit score? (optional, but helps calculate accurate payments)"))
        \o When(flags.needs_passengers,
                "How many passengers do you need to seat regularly?")
        \o When(flags.needs_budget, "What is your budget range for the vehicle?")
        \o When(flags.needs_priorities,
                "What are your priorities? (fuel efficiency, performance, space, safety, etc.)")
        \o When(flags.needs_commute,
                "What type of driving will you be doing? (city, highway, off-road, or commute distance)")
        \o When(flags.needs_features,
                "Are there any specific features you want? (AWD, hybrid, 3rd row seating, etc.)")

_analyze_missing_information(profile, fin, user_message) ==
    LET flags == MissingFlags(profile, fin)
    IN  flags @@ [suggested_questions |-> SuggestedQuestions(flags, user_message)]

\* the conversations about income: a figure without a period, an annual
\* figure, a monthly figure, and a message that states no income
IncomeContents ==
    { AmbiguousIncomeContent,
      "I have bad credit and make $50k per year",
      "My credit score is 720 and I make $5000 per month with $3000 down",
      "Actually, my budget is $40k for a hybrid and my top priority is safety" }

IncomeConversations ==
    UNION { [1..n -> [role : {"user", "agent"}, content : IncomeContents]] :
                n \in 0..MaxMessages }

InitClarify ==
    /\ pc = "merge_loop"
    /\ cars = <<>>
    /\ messages \in IncomeConversations
    /\ msg_index = 1
    /\ merged_user = <<>>
    /\ merged_financial = <<>>
    /\ extracted = NoProfiles
    /\ missing_info = NoAnalysis
    /\ FinIdle
    /\ WeightsIdle
    /\ ScoreIdle
    /\ CallsIdle
    /\ AgentIdle

\* process_message_old: `user_message = messages[-1].content if messages else ""`,
\* then the analysis of the profiles merged from the conversation
AnalyzeMissingInformation ==
    /\ pc = "done"
    /\ extracted.returned
    /\ LET user_message == IF messages = <<>> THEN ""
                           ELSE messages[Len(messages)].content
       IN  missing_info' = _analyze_missing_information(
                               extracted.user_profile, extracted.financial_profile,
                               user_message)
    /\ pc' = "analyzed"
    /\ UNCHANGED <<agentVars, cars, finVars, weightVars, scoreVars, callVars,
                   messages, msg_index, merged_user, merged_financial, extracted>>

NextClarify ==
    \/ NextConv
    \/ AnalyzeMissingInformation

SpecClarify == InitClarify /\ [][NextClarify]_vars

(***************************************************************************)
(* A session of calls on the two services: any sequence of                 *)
(* score_cars_for_user and evaluate_affordability calls on one catalog.    *)
(* Each call is logged with the catalog and the argument as they are       *)
(* before and after it.                                                    *)
(***************************************************************************)
MaxCalls == 3

\* What a score_cars_for_user call leaves in the objects it was given:
\* the loop reads self.cars, _get_weights updates a copy of DEFAULT_WEIGHTS
\* and profile.get reads the caller's dictionary.
ScoreCallEffects_NoCopy(catalog, defaults, profile) ==
    [cars |-> catalog,
     DEFAULT_WEIGHTS |-> IF catalog = <<>> THEN defaults ELSE _get_weights(profile),
     user_profile |-> profile]

ScoreCallEffects(catalog, defaults, profile) ==
    [cars |-> catalog, DEFAULT_WEIGHTS |-> defaults, user_profile |-> profile]

\* evaluate_affordability reads car and financial_profile with .get only
AffordCallEffects(c, fp) == [car |-> c, financial_profile |-> fp]

SessionProfiles ==
    {<<>>, [budget_max |-> [int |-> 30000], commute_miles |-> [int |-> 60]]}
    \cup {[weights |-> w] : w \in WeightOverrides}

SessionFinProfiles ==
    {[monthly_income |-> 4000, down_payment |-> 6000],
     [annual_income |-> 60000, credit_score |-> [str |-> "Good"]]}

InitCalls ==
    /\ pc = "session"
    /\ cars \in Catalogs
    /\ FinIdle
    /\ WeightsIdle
    /\ ScoreIdle
    /\ ConvIdle
    /\ CallsIdle
    /\ AgentIdle

ScoreCall ==
    /\ pc = "session"
    /\ Len(calls) < MaxCalls
    /\ \E p \in SessionProfiles :
          LET result == score_cars_for_user(cars, p)
              after == ScoreCallEffects(cars, default_weights, p)
          IN  /\ factors' = [i \in 1..Len(cars) |-> FactorResults(cars[i], p)]
              /\ scored_cars' = result
              /\ cars' = after.cars
              /\ default_weights' = after.DEFAULT_WEIGHTS
              /\ user_profile' = after.user_profile
              /\ calls' = Append(calls,
                     [tool |-> "score_cars_for_user", catalog |-> cars,
                      argument |-> [user_profile |-> p],
                      catalog_after |-> after.cars,
                      argument_after |-> [user_profile |-> after.user_profile],
                      result |-> result])
    /\ UNCHANGED <<agentVars, pc, finVars, weightVars, convVars>>

AffordCall ==
    /\ pc = "session"
    /\ Len(calls) < MaxCalls
    /\ \E i \in 1..Len(cars), fp \in SessionFinProfiles :
          LET result == evaluate_affordability(cars[i], fp)
              after == AffordCallEffects(cars[i], fp)
          IN  /\ frame' = AffordabilityLocals(cars[i], fp)
              /\ affordability' = result
              /\ car' = after.car
              /\ financial_profile' = after.financial_profile
              /\ cars' = [cars EXCEPT ![i] = after.car]
              /\ calls' = Append(calls,
                     [tool |-> "evaluate_affordability", catalog |-> cars,
                      argument |-> [car |-> cars[i], financial_profile |-> fp],
                      catalog_after |-> [cars EXCEPT ![i] = after.car],
                      argument_after |-> after,
                      result |-> result])
    /\ UNCHANGED <<agentVars, pc, weightVars, scoreVars, convVars, default_weights>>

NextCalls ==
    \/ ScoreCall
    \/ AffordCall

SpecCalls == InitCalls /\ [][NextCalls]_vars

(***************************************************************************)
(* AIAgent: the tools the language model may call.  A JSON value of the    *)
(* arguments is tagged ([int |-> n], [str |-> s], PyNone); a tool result   *)
(* is [list |-> ...] or [dict |-> ...].  The body of a tool either returns *)
(* a value or raises; _execute_tool wraps the body in try/except.  The     *)
(* text of an exception is represented by the name of its type.            *)
(***************************************************************************)
ToolReturn(value) == [raised |-> "", value |-> value]
ToolRaise(name) == [raised |-> name, value |-> PyNone]

ErrorDict(text) == [dict |-> [error |-> text]]

\* the arguments are a JSON object
IsDict(v) == "dict" \in DOMAIN v

\* the smallest element of a non-empty set of positions
First(S) == CHOOSE i \in S : \A j \in S : i <= j

\* _get_car_details: the first car of the catalog with that id, or None;
\* car['id'] raises KeyError on a record without an id
_get_car_details(catalog, car_id) ==
    LET hits == { i \in DOMAIN catalog :
                    "id" \in DOMAIN catalog[i] /\ [str |-> catalog[i].id] = car_id }
        keyless == { i \in DOMAIN catalog : "id" \notin DOMAIN catalog[i] }
    IN  IF hits # {} /\ \A i \in keyless : First(hits) < i
            THEN [raised |-> "", found |-> TRUE, index |-> First(hits)]
        ELSE IF keyless # {} THEN [raised |-> "KeyError", found |-> FALSE, index |-> 0]
        ELSE [raised |-> "", found |-> FALSE, index |-> 0]

\* result[:n]
Take(seq, n) == SubSeq(seq, 1, Min(n, Len(seq)))

\* result[:10] of what score_cars_for_user returned
TopTen(result) ==
    IF result.raised # "" THEN ToolRaise(result.raised)
    ELSE ToolReturn([list |-> Take(result.list, 10)])

\* the tool score_cars_for_user: the ten best entries of the scored list
ScoreTool(catalog, arguments) ==
    IF ~IsDict(arguments) THEN
        IF catalog = <<>> THEN ToolReturn([list |-> <<>>]) ELSE ToolRaise("AttributeError")
    ELSE TopTen(score_cars_for_user(catalog, arguments.dict))

financial_arguments ==
    {"annual_income", "monthly_income", "credit_score", "down_payment",
     "loan_term_months", "trade_in_value"}

\* the financial profile built from the arguments: loan_term_months defaults
\* to 60, null values are removed, amounts are the engine's plain numbers
ToolFinancialProfile(d) ==
    LET given == [k \in (DOMAIN d \cap financial_arguments) \cup {"loan_term_months"} |->
                     Get(d, k, [int |-> 60])]
        kept == { k \in DOMAIN given : ~IsNone(given[k]) }
    IN  [k \in kept |-> IF k = "credit_score" THEN given[k] ELSE given[k].int]

\* the dict the tool evaluate_affordability builds from the engine's result
AffordabilityDict(vehicle_id, result) ==
    IF result.raised # "" THEN ToolRaise(result.raised)
    ELSE ToolReturn([dict |->
            [vehicle_id |-> vehicle_id.str,
             monthly_payment |-> result.monthly_payment,
             down_payment_required |-> result.down_payment_required,
             total_cost_5yr |-> result.total_cost_5yr,
             debt_to_income_ratio |-> result.debt_to_income_ratio,
             affordability_score |-> result.affordability_score,
             affordable |-> result.affordable,
             warnings |-> result.warnings,
             reasons |-> result.reasons]])

\* the tool evaluate_affordability, the vehicle looked up
AffordabilityOf(catalog, arguments, vehicle_id, lookup) ==
    IF ~Truthy(vehicle_id) THEN ToolReturn(ErrorDict("vehicle_id is required"))
    ELSE IF lookup.raised # "" THEN ToolRaise(lookup.raised)
    ELSE IF ~lookup.found THEN
        ToolReturn(ErrorDict("Vehicle " \o vehicle_id.str \o " not found"))
    ELSE AffordabilityDict(vehicle_id,
                           evaluate_affordability(catalog[lookup.index],
                                                  ToolFinancialProfile(arguments.dict)))

\* the tool evaluate_affordability
AffordabilityTool(catalog, arguments) ==
    IF ~IsDict(arguments) THEN ToolRaise("AttributeError")
    ELSE AffordabilityOf(catalog, arguments,
                         Get(arguments.dict, "vehicle_id", PyNone),
                         _get_car_details(catalog, Get(arguments.dict, "vehicle_id", PyNone)))

\* the tool get_all_cars: five fields of each of the first 50 cars
AllCarsTool(catalog) ==
    IF \E i \in DOMAIN Take(catalog, 50) : "id" \notin DOMAIN catalog[i]
        THEN ToolRaise("KeyError")
    ELSE ToolReturn([list |->
            [i \in DOMAIN Take(catalog, 50) |->
                [id |-> catalog[i].id,
                 make |-> Get(catalog[i], "make", None),
                 model |-> Get(catalog[i], "model", None),
                 year |-> Get(catalog[i], "year", None),
                 trim |-> Get(catalog[i], "trim", None)]]])

\* the tool get_car_details: the catalog record itself
CarDetailsTool(catalog, arguments) ==
    IF ~IsDict(arguments) THEN ToolRaise("AttributeError")
    ELSE
        LET vehicle_id == Get(arguments.dict, "vehicle_id", PyNone)
            lookup == _get_car_details(catalog, vehicle_id)
        IN  IF ~Truthy(vehicle_id) THEN ToolReturn(ErrorDict("vehicle_id is required"))
            ELSE IF lookup.raised # "" THEN ToolRaise(lookup.raised)
            ELSE IF ~lookup.found THEN
                ToolReturn(ErrorDict("Vehicle " \o vehicle_id.str \o " not found"))
            ELSE ToolReturn([dict |-> catalog[lookup.index]])

\* the body of the try block of _execute_tool
ToolBody(catalog, tool_name, arguments) ==
    IF tool_name = "score_cars_for_user" THEN ScoreTool(catalog, arguments)
    ELSE IF tool_name = "evaluate_affordability" THEN AffordabilityTool(catalog, arguments)
    ELSE IF tool_name = "get_all_cars" THEN AllCarsTool(catalog)
    ELSE IF tool_name = "get_car_details" THEN CarDetailsTool(catalog, arguments)
    ELSE ToolReturn(ErrorDict("Unknown tool: " \o tool_name))

\* `except Exception as e`: the error as a value
ExceptAsValue(tool_name, body) ==
    IF body.raised # "" THEN
        ToolReturn(ErrorDict("Error executing tool " \o tool_name \o ": " \o body.raised))
    ELSE body

\* _execute_tool without its except clause
_execute_tool_Unguarded(catalog, tool_name, arguments) ==
    ToolBody(catalog, tool_name, arguments)

\* _execute_tool: the body of its try block, then its except clause
_execute_tool(catalog, tool_name, arguments) ==
    ExceptAsValue(tool_name, ToolBody(catalog, tool_name, arguments))

\* what a call of _execute_tool leaves in the catalog: the scoring service
\* and the affordability engine are handed the catalog's own objects
ToolCatalogAfter(catalog, defaults, tool_name, arguments) ==
    IF tool_name = "score_cars_for_user" /\ IsDict(arguments) THEN
        ScoreCallEffects(catalog, defaults, arguments.dict).cars
    ELSE IF tool_name = "evaluate_affordability" /\ IsDict(arguments) THEN
        LET vehicle_id == Get(arguments.dict, "vehicle_id", PyNone)
            lookup == _get_car_details(catalog, vehicle_id)
        IN  IF Truthy(vehicle_id) /\ lookup.found THEN
                [catalog EXCEPT ![lookup.index] =
                    AffordCallEffects(catalog[lookup.index],
                                      ToolFinancialProfile(arguments.dict)).car]
            ELSE catalog
    ELSE catalog

(***************************************************************************)
(* _execute_tool as a state machine: one call per behaviour                *)
(***************************************************************************)
VehicleIds ==
    {PyNone, [str |-> ""], [str |-> "prius-le-2020"], [str |-> "corolla-le-2019"]}

\* a JSON value that is not an object
NotAnObject == {PyNone, [list |-> <<>>]}

ScoreArguments ==
    { [dict |-> d] : d \in {<<>>, [budget_max |-> [int |-> 30000]],
                            [budget_max |-> PyNone]} }
    \cup NotAnObject

AffordabilityArguments ==
    { [dict |-> d] :
        d \in PartialDicts([vehicle_id : VehicleIds,
                            monthly_income : {[int |-> 4000]},
                            loan_term_months : {[int |-> 0], [int |-> 72]},
                            credit_score : {PyNone, [int |-> 720]}]) }
    \cup NotAnObject

CarDetailsArguments ==
    { [dict |-> d] : d \in PartialDicts([vehicle_id : VehicleIds]) } \cup NotAnObject

ToolCalls ==
    [tool_name : {"score_cars_for_user"}, arguments : ScoreArguments]
    \cup [tool_name : {"evaluate_affordability"}, arguments : AffordabilityArguments]
    \cup [tool_name : {"get_all_cars"}, arguments : {[dict |-> <<>>]} \cup NotAnObject]
    \cup [tool_name : {"get_car_details"}, arguments : CarDetailsArguments]
    \cup [tool_name : {"find_cars", ""}, arguments : {[dict |-> <<>>]} \cup NotAnObject]

InitTool ==
    /\ pc = "call_execute_tool"
    /\ cars \in Catalogs
    /\ \E call \in ToolCalls : tool_call = call @@ [catalog |-> cars]
    /\ tool_result = NoToolResult
    /\ LoopIdle
    /\ FileIdle
    /\ ServerIdle
    /\ FinIdle
    /\ WeightsIdle
    /\ ScoreIdle
    /\ ConvIdle
    /\ CallsIdle

ExecuteTool ==
    /\ pc = "call_execute_tool"
    /\ tool_result' = _execute_tool(cars, tool_call.tool_name, tool_call.arguments)
    /\ cars' = ToolCatalogAfter(cars, default_weights,
                                tool_call.tool_name, tool_call.arguments)
    /\ pc' = "done"
    /\ UNCHANGED <<finVars, weightVars, scoreVars, convVars, callVars, tool_call,
                   loopVars, fileVars, serverVars>>

NextTool == ExecuteTool

SpecTool == InitTool /\ [][NextTool]_vars

(***************************************************************************)
(* AIAgent.process_message and NemotronOrchestrator.process_message: the   *)
(* tool-calling loop.  The language model is the environment: each of its  *)
(* replies is an exception, a final answer or a list of tool calls.  The   *)
(* catalog is data/cars.json, which catalog_scoring.py loads at import and *)
(* _update_suggested_json reads again; its ids are unique and not empty.   *)
(***************************************************************************)
CatalogSize == 12
MaxToolCalls == 2

\* a loop of twelve passes
max_iterations_Twelve(class) == 12

\* max_iterations of the two classes
max_iterations(class) == IF class = "AIAgent" THEN 10 ELSE 5

AgentCar(i) ==
    LET id == "toyota-" \o ToString(i)
        specs == IF i % 2 = 1
                     THEN [Prius(id) EXCEPT !.base_msrp = 24000 + 500 * i]
                     ELSE [FourRunner EXCEPT !.id = id, !.base_msrp = 38000 + 500 * i]
    IN  specs @@ [make |-> "Toyota",
                  model |-> IF i % 2 = 1 THEN "Prius" ELSE "4Runner",
                  trim |-> "LE", year |-> 2020 + (i % 3)]

\* data/cars.json
cars_json == [i \in 1..CatalogSize |-> AgentCar(i)]

\* tool_call.function.arguments that json.loads rejects
Unparsable == [unparsable |-> TRUE]

\* json.loads(tool_call.function.arguments), {} on JSONDecodeError
json_loads(arguments) == IF arguments = Unparsable THEN [dict |-> <<>>] ELSE arguments

\* the tool calls a reply of the model may hold
ModelToolCalls ==
    [tool_name : {"score_cars_for_user"},
     arguments : {[dict |-> [budget_max |-> [int |-> 30000]]],
                  [dict |-> [passengers |-> [int |-> 7],
                             terrain |-> [str |-> "offroad"]]],
                  [dict |-> [budget_max |-> PyNone]],
                  Unparsable}]
    \cup [tool_name : {"get_all_cars"}, arguments : {[dict |-> <<>>]}]
    \cup [tool_name : {"get_car_details", "evaluate_affordability"},
          arguments : {[dict |-> [vehicle_id |-> [str |-> "toyota-2"]]]}]
    \cup [tool_name : {"find_cars"}, arguments : {[dict |-> <<>>]}]

\* message.content of a reply: empty or a text
ModelContents == {"", "Here are my picks."}

\* the tools of NemotronOrchestrator, and a name it does not know
NemotronToolNames == {"find_cars", "calculate_true_cost", "get_vehicle_details",
                      "score_cars_for_user"}

\* NemotronOrchestrator._execute_tool: the tool functions are outside this
\* model, so a known tool returns a value or raises as the environment chooses
NemotronToolBody(tool_name, raises) ==
    IF tool_name \in {"find_cars", "calculate_true_cost", "get_vehicle_details"} THEN
        IF raises THEN ToolRaise("Exception") ELSE ToolReturn([list |-> <<>>])
    ELSE ToolReturn(ErrorDict("Unknown tool: " \o tool_name))

Nemotron_execute_tool(tool_name, raises) ==
    LET body == NemotronToolBody(tool_name, raises)
    IN  IF body.raised # "" THEN
            ToolReturn(ErrorDict("Error executing tool " \o tool_name \o ": " \o body.raised))
        ELSE body

\* self.client: None without NEMOTRON_API_KEY, else an OpenAI client; the
\* key may be a placeholder
Clients == {None, "OpenAI(placeholder key)", "OpenAI"}

\* NemotronOrchestrator.process_message: the key looks like a placeholder
IsPlaceholderKey == client = "OpenAI(placeholder key)"

(***************************************************************************)
(* data/suggested.json.  A file is [exists, complete, data]: complete is   *)
(* false between the open(path, 'w') that truncates it and the end of      *)
(* json.dump.                                                              *)
(***************************************************************************)
File(data) == [exists |-> TRUE, complete |-> TRUE, data |-> data]

\* the elements of a sequence that are in the set keep, in order
RECURSIVE Filter(_, _)
Filter(seq, keep) ==
    IF seq = <<>> THEN <<>>
    ELSE (IF Head(seq) \in keep THEN <<Head(seq)>> ELSE <<>>) \o Filter(Tail(seq), keep)

\* cars_by_id = {car.get("id"): car for car in all_cars if car.get("id")}:
\* the last record of each non-empty id
cars_by_id(all_cars) ==
    LET ids == { all_cars[i].id : i \in { j \in DOMAIN all_cars :
                    "id" \in DOMAIN all_cars[j] /\ all_cars[j].id # "" } }
    IN  [id \in ids |->
            all_cars[CHOOSE i \in DOMAIN all_cars :
                        /\ "id" \in DOMAIN all_cars[i] /\ all_cars[i].id = id
                        /\ \A j \in DOMAIN all_cars :
                              ("id" \in DOMAIN all_cars[j] /\ all_cars[j].id = id) => j <= i]]

\* the records json.dump writes: the cars found, in the order of the ids
suggested_cars_CatalogOrder(all_cars, recommended_car_ids) ==
    LET wanted == { recommended_car_ids[i] : i \in DOMAIN recommended_car_ids }
        found == { i \in DOMAIN all_cars : all_cars[i].id \in wanted }
    IN  [k \in 1..Cardinality(found) |->
            all_cars[CHOOSE i \in found : Cardinality({ j \in found : j <= i }) = k]]

suggested_cars(all_cars, recommended_car_ids) ==
    LET by_id == cars_by_id(all_cars)
        found == Filter(recommended_car_ids, DOMAIN by_id)
    IN  [k \in DOMAIN found |-> by_id[found[k]]]

\* _update_suggested_json: the file after the call
_update_suggested_json(file, recommended_car_ids) ==
    IF recommended_car_ids = <<>> THEN file
    ELSE File(suggested_cars(cars_json, recommended_car_ids))

\* Vehicle(**car_dict) validates: the record has the fields of the model
\* (the nested specs are the flat fields of this model's records)
ConvertsToVehicle(c) ==
    {"id", "make", "model", "trim", "year", "base_msrp", "mpg_city", "seats"}
        \subseteq DOMAIN c

\* the record without the keys 'Reason' and '_score'
car_dict(c) == [k \in DOMAIN c \ {"Reason", "_score"} |-> c[k]]

RECURSIVE Vehicles(_)
Vehicles(suggested) ==
    IF suggested = <<>> THEN <<>>
    ELSE (IF ConvertsToVehicle(car_dict(Head(suggested)))
              THEN <<car_dict(Head(suggested))>> ELSE <<>>)
         \o Vehicles(Tail(suggested))

\* get_suggested_vehicles: the file after the request and the response; a
\* file that is not complete JSON raises JSONDecodeError
get_suggested_vehicles(file) ==
    IF ~file.exists THEN [file |-> File(<<>>), response |-> <<>>]
    ELSE IF ~file.complete THEN [file |-> file, response |-> <<>>]
    ELSE [file |-> file, response |-> Vehicles(file.data)]

\* a file left by an earlier run of the server
StaleFile == File(<<cars_json[CatalogSize], [id |-> "camry-le-2018", Reason |-> "value"]>>)

InitialFiles == {NoFile, File(<<>>), StaleFile}

(***************************************************************************)
(* The two process_message methods and the endpoints of suggested.json as  *)
(* a state machine.  pc is "idle" between requests, "loop" inside the      *)
(* while loop and "returned" when process_message has returned to its      *)
(* endpoint.  A request is handled to its end before the next one starts:  *)
(* the handlers are coroutines without a suspension point (see the model   *)
(* of the event loop below).                                               *)
(***************************************************************************)
AgentClasses == {"AIAgent", "NemotronOrchestrator"}

FoundText(n) ==
    "I've found " \o ToString(n)
    \o " Toyota vehicles that match your preferences. Please check the recommendations on the right."

HelpText ==
    "I'm here to help you find the perfect Toyota! Could you tell me more about what you're looking for?"

\* the tuple AIAgent.process_message returns, and the return statement
AgentReturn(text, ids, method, at) ==
    [class |-> "AIAgent", text |-> text, recommended_car_ids |-> ids,
     scoring_method |-> method, returned_at |-> at]

\* the string NemotronOrchestrator.process_message returns
NemotronReturn(text, at) ==
    [class |-> "NemotronOrchestrator", text |-> text, returned_at |-> at]

\* [car.get("id") for car in tool_result if car.get("id")]
CarIds(list) ==
    Filter([i \in DOMAIN list |-> Get(list[i], "id", "")],
           { Get(list[i], "id", "") : i \in DOMAIN list } \ {""})

InitAgent ==
    /\ pc = "idle"
    /\ cars = cars_json
    /\ ToolIdle
    /\ agent_class = None
    /\ client \in Clients
    /\ iteration = 0
    /\ recommended_car_ids_list = <<>>
    /\ scoring_method = None
    /\ last_scored = NoList
    /\ model_calls = NoModelCalls
    /\ tool_calls_left = 0
    /\ process_result = NoReturn
    /\ suggested_json \in InitialFiles
    /\ http_response = NoResponse
    /\ ServerIdle
    /\ FinIdle
    /\ WeightsIdle
    /\ ScoreIdle
    /\ ConvIdle
    /\ CallsIdle

\* the locals of a run that has not called the model yet
StartLocals ==
    /\ iteration' = 0
    /\ recommended_car_ids_list' = <<>>
    /\ scoring_method' = None
    /\ last_scored' = NoList
    /\ model_calls' = NoModelCalls
    /\ tool_calls_left' = 0
    /\ tool_call' = NoToolCall
    /\ tool_result' = NoToolResult

\* POST /chat or POST /orchestrator/chat without a usable client: the
\* method returns before its try block
ReturnNotConfigured ==
    /\ pc = "idle"
    /\ \E class \in AgentClasses :
          /\ client = None \/ (class = "NemotronOrchestrator" /\ IsPlaceholderKey)
          /\ agent_class' = class
          /\ process_result' =
                IF class = "AIAgent" THEN
                    AgentReturn("API key not configured. Please set NEMOTRON_API_KEY in .env",
                                <<>>, None, "not configured")
                ELSE IF client = None THEN
                    NemotronReturn("API key not configured. Please set NEMOTRON_API_KEY in .env file with a valid Nemotron API key.",
                                   "not configured")
                ELSE NemotronReturn("Nemotron API key appears to be invalid or a placeholder.",
                                    "placeholder key")
    /\ pc' = "returned"
    /\ StartLocals
    /\ http_response' = NoResponse
    /\ UNCHANGED <<cars, client, suggested_json, finVars, weightVars, scoreVars,
                   convVars, callVars,
                   serverVars>>

\* the method enters its while loop
StartProcessMessage ==
    /\ pc = "idle"
    /\ \E class \in AgentClasses :
          /\ client # None /\ ~(class = "NemotronOrchestrator" /\ IsPlaceholderKey)
          /\ agent_class' = class
    /\ pc' = "loop"
    /\ StartLocals
    /\ process_result' = NoReturn
    /\ http_response' = NoResponse
    /\ UNCHANGED <<cars, client, suggested_json, finVars, weightVars, scoreVars,
                   convVars, callVars,
                   serverVars>>

\* the loop is about to call the model with tool_choice="auto"
AtModelCall ==
    /\ pc = "loop"
    /\ tool_calls_left = 0
    /\ iteration < max_iterations(agent_class)

\* chat.completions.create raises: the outer except returns the error
ModelCallRaises ==
    /\ AtModelCall
    /\ iteration' = iteration + 1
    /\ model_calls' = [model_calls EXCEPT !.auto = @ + 1]
    /\ process_result' =
          IF agent_class = "AIAgent" THEN
              AgentReturn("I encountered an error while processing your request. Please try again.",
                          <<>>, None, "except")
          ELSE NemotronReturn("Error: " \o "APIError", "except")
    /\ pc' = "returned"
    /\ UNCHANGED <<cars, tool_call, tool_result, agent_class, client,
                   recommended_car_ids_list, scoring_method, last_scored, tool_calls_left,
                   fileVars, finVars, weightVars, scoreVars, convVars, callVars,
                   serverVars>>

\* the reply has no tool calls: the method answers, AIAgent after updating
\* suggested.json when it has recommendations
ModelAnswers ==
    /\ AtModelCall
    /\ iteration' = iteration + 1
    /\ model_calls' = [model_calls EXCEPT !.auto = @ + 1]
    /\ \E content \in ModelContents :
          process_result' =
              IF agent_class = "AIAgent" THEN
                  AgentReturn(IF content # "" THEN content
                              ELSE IF recommended_car_ids_list # <<>>
                                  THEN FoundText(Len(recommended_car_ids_list))
                              ELSE HelpText,
                              recommended_car_ids_list, scoring_method, "answer")
              ELSE NemotronReturn(IF content # "" THEN content ELSE "I'm here to help!",
                                  "answer")
    /\ suggested_json' =
          IF agent_class = "AIAgent" /\ recommended_car_ids_list # <<>>
              THEN _update_suggested_json(suggested_json, recommended_car_ids_list)
          ELSE suggested_json
    /\ pc' = "returned"
    /\ UNCHANGED <<cars, tool_call, tool_result, agent_class, client,
                   recommended_car_ids_list, scoring_method, last_scored, tool_calls_left,
                   http_response, finVars, weightVars, scoreVars, convVars, callVars,
                   serverVars>>

\* the reply holds tool calls
ModelRequestsTools ==
    /\ AtModelCall
    /\ iteration' = iteration + 1
    /\ model_calls' = [model_calls EXCEPT !.auto = @ + 1]
    /\ \E n \in 1..MaxToolCalls : tool_calls_left' = n
    /\ UNCHANGED <<pc, cars, tool_call, tool_result, agent_class, client,
                   recommended_car_ids_list, scoring_method, last_scored, process_result,
                   fileVars, finVars, weightVars, scoreVars, convVars, callVars,
                   serverVars>>

\* the ids of a result are taken: `if tool_name == "score_cars_for_user"`
\* and `if isinstance(tool_result, list)`
TracksIds_AnyTool(tool_name, result) == "list" \in DOMAIN result.value

TracksIds(tool_name, result) ==
    tool_name = "score_cars_for_user" /\ "list" \in DOMAIN result.value

\* what one pass of `for tool_call in message.tool_calls` of AIAgent does
\* with the result of the tool
TrackToolResult(call, tool_arguments, result) ==
    /\ tool_call' = [tool_name |-> call.tool_name, arguments |-> tool_arguments,
                     catalog |-> cars]
    /\ tool_result' = result
    /\ scoring_method' =
          IF call.tool_name = "score_cars_for_user" THEN "preference_based"
          ELSE scoring_method
    /\ recommended_car_ids_list' =
          IF TracksIds(call.tool_name, result) THEN CarIds(result.value.list)
          ELSE recommended_car_ids_list
    /\ last_scored' =
          IF call.tool_name = "score_cars_for_user" /\ "list" \in DOMAIN result.value
              THEN result.value
          ELSE last_scored

\* one pass of that loop
ExecuteToolCall ==
    /\ pc = "loop"
    /\ agent_class = "AIAgent"
    /\ tool_calls_left > 0
    /\ \E call \in ModelToolCalls :
          /\ TrackToolResult(call, json_loads(call.arguments),
                             _execute_tool(cars, call.tool_name, json_loads(call.arguments)))
          /\ cars' = ToolCatalogAfter(cars, default_weights, call.tool_name,
                                      json_loads(call.arguments))
    /\ tool_calls_left' = tool_calls_left - 1
    /\ UNCHANGED <<pc, agent_class, client, iteration, model_calls, process_result,
                   fileVars, finVars, weightVars, scoreVars, convVars, callVars,
                   serverVars>>

\* one pass of the same loop of NemotronOrchestrator
NemotronExecuteToolCall ==
    /\ pc = "loop"
    /\ agent_class = "NemotronOrchestrator"
    /\ tool_calls_left > 0
    /\ \E tool_name \in NemotronToolNames, raises \in BOOLEAN :
          /\ tool_call' = [tool_name |-> tool_name, arguments |-> [dict |-> <<>>],
                           catalog |-> cars]
          /\ tool_result' = Nemotron_execute_tool(tool_name, raises)
    /\ tool_calls_left' = tool_calls_left - 1
    /\ UNCHANGED <<pc, cars, agent_class, client, iteration, recommended_car_ids_list,
                   scoring_method, last_scored, model_calls, process_result,
                   fileVars, finVars, weightVars, scoreVars, convVars, callVars,
                   serverVars>>

\* the loop ran out: one call with tool_choice="none".  AIAgent catches its
\* exception in a try of its own and answers with what it has collected;
\* in NemotronOrchestrator the call is inside the outer try
ForcedFinalCall ==
    /\ pc = "loop"
    /\ tool_calls_left = 0
    /\ iteration >= max_iterations(agent_class)
    /\ model_calls' = [model_calls EXCEPT !.none = @ + 1]
    /\ \E raises \in BOOLEAN, content \in ModelContents :
          process_result' =
              IF agent_class = "AIAgent" THEN
                  AgentReturn(IF raises THEN
                                  (IF recommended_car_ids_list # <<>>
                                       THEN FoundText(Len(recommended_car_ids_list))
                                   ELSE "I encountered an issue processing your request. Please try again.")
                              ELSE IF content # "" THEN content
                              ELSE IF recommended_car_ids_list # <<>>
                                  THEN FoundText(Len(recommended_car_ids_list))
                              ELSE HelpText,
                              recommended_car_ids_list, scoring_method,
                              IF raises THEN "forced call raised" ELSE "forced")
              ELSE IF raises THEN NemotronReturn("Error: " \o "APIError", "except")
              ELSE NemotronReturn(IF content # "" THEN content ELSE "I'm here to help!",
                                  "forced")
    /\ suggested_json' =
          IF agent_class = "AIAgent" /\ recommended_car_ids_list # <<>>
              THEN _update_suggested_json(suggested_json, recommended_car_ids_list)
          ELSE suggested_json
    /\ pc' = "returned"
    /\ UNCHANGED <<cars, tool_call, tool_result, agent_class, client, iteration,
                   recommended_car_ids_list, scoring_method, last_scored, tool_calls_left,
                   http_response, finVars, weightVars, scoreVars, convVars, callVars,
                   serverVars>>

\* the endpoint builds its ChatResponse from what process_message returned
\* (POST /chat also writes data/AiSuggested.json, a file no other handler
\* of this model reads)
Respond ==
    /\ pc = "returned"
    /\ http_response' =
          IF agent_class = "AIAgent" THEN
              [handler |-> "chat", content |-> process_result.text,
               recommended_car_ids |->
                   IF process_result.recommended_car_ids # <<>>
                       THEN [list |-> process_result.recommended_car_ids] ELSE PyNone,
               scoring_method |-> process_result.scoring_method]
          ELSE [handler |-> "orchestrate_chat", content |-> process_result.text]
    /\ pc' = "idle"
    /\ agent_class' = None
    /\ process_result' = NoReturn
    /\ StartLocals
    /\ UNCHANGED <<cars, client, suggested_json, finVars, weightVars, scoreVars,
                   convVars, callVars,
                   serverVars>>

\* POST /vehicles/suggested/clear
ClearSuggested ==
    /\ pc = "idle"
    /\ suggested_json' = File(<<>>)
    /\ http_response' = [handler |-> "clear_suggested_vehicles", status |-> "success"]
    /\ UNCHANGED <<pc, cars, tool_call, tool_result, loopVars, finVars, weightVars,
                   scoreVars, convVars, callVars,
                   serverVars>>

\* GET /vehicles/suggested
GetSuggested ==
    /\ pc = "idle"
    /\ suggested_json' = get_suggested_vehicles(suggested_json).file
    /\ http_response' = [handler |-> "get_suggested_vehicles",
                         vehicles |-> get_suggested_vehicles(suggested_json).response]
    /\ UNCHANGED <<pc, cars, tool_call, tool_result, loopVars, finVars, weightVars,
                   scoreVars, convVars, callVars,
                   serverVars>>

NextAgent ==
    \/ ReturnNotConfigured
    \/ StartProcessMessage
    \/ ModelCallRaises
    \/ ModelAnswers
    \/ ModelRequestsTools
    \/ ExecuteToolCall
    \/ NemotronExecuteToolCall
    \/ ForcedFinalCall
    \/ Respond
    \/ ClearSuggested
    \/ GetSuggested

SpecAgent == InitAgent /\ [][NextAgent]_vars

(***************************************************************************)
(* The loop alone, for its termination.  What a tool returns does not      *)
(* matter to the loop beyond its kind, and _execute_tool never raises, so  *)
(* here a tool call may come back with any of three results: a scored      *)
(* list, an error dict, another dict.                                      *)
(***************************************************************************)
AnyToolResults ==
    {ToolReturn([list |-> [i \in 1..10 |->
                    [id |-> cars_json[i].id, score |-> 100 - i, reasons |-> <<>>]]]),
     ToolReturn(ErrorDict("Error executing tool score_cars_for_user: TypeError")),
     ToolReturn([dict |-> [vehicle_id |-> "toyota-2"]])}

\* one pass of `for tool_call in message.tool_calls` of AIAgent
ExecuteAnyToolCall ==
    /\ pc = "loop"
    /\ agent_class = "AIAgent"
    /\ tool_calls_left > 0
    /\ \E call \in ModelToolCalls, result \in AnyToolResults :
          TrackToolResult(call, json_loads(call.arguments), result)
    /\ tool_calls_left' = tool_calls_left - 1
    /\ UNCHANGED <<pc, cars, agent_class, client, iteration, model_calls, process_result,
                   fileVars, finVars, weightVars, scoreVars, convVars, callVars,
                   serverVars>>

\* no request touches suggested.json before the first chat turn
InitLoop == InitAgent /\ suggested_json = NoFile

\* a step inside process_message
LoopStep ==
    \/ ModelCallRaises
    \/ ModelAnswers
    \/ ModelRequestsTools
    \/ ExecuteAnyToolCall
    \/ NemotronExecuteToolCall
    \/ ForcedFinalCall

NextLoop ==
    \/ ReturnNotConfigured
    \/ StartProcessMessage
    \/ LoopStep
    \/ Respond

\* every model call returns or raises in the end (the client is synchronous
\* and has a timeout), and the interpreter goes on to the next statement
SpecLoop == InitLoop /\ [][NextLoop]_vars /\ WF_vars(LoopStep)

(***************************************************************************)
(* The server process: the request handlers as coroutines of one asyncio   *)
(* event loop.  chat, get_suggested_vehicles and clear_suggested_vehicles  *)
(* are `async def`; a coroutine keeps the loop until it awaits something   *)
(* that is not ready, and none of them does: process_message holds no      *)
(* await and calls the synchronous OpenAI client, and the file operations  *)
(* are synchronous.  What the tool loop computes is SpecAgent's matter;    *)
(* here a chat turn is the steps between which another handler could run   *)
(* if the loop were given up: the loop of process_message, the open that   *)
(* truncates suggested.json, each record json.dump writes, the close.      *)
(***************************************************************************)
MaxChats == 2

ChatIds == { "chat" \o ToString(i) : i \in 1..MaxChats }

HandlerIds == ChatIds \cup {"get_suggested_vehicles", "clear_suggested_vehicles"}

\* the id lists a chat turn may end with
TurnIdLists == {<<>>, <<"toyota-2", "toyota-1">>, <<"toyota-3", "toyota-4">>}

NotRead == [read |-> FALSE]

NewHandler ==
    [pc |-> "not issued", recommended_car_ids |-> <<>>, written |-> 0,
     seen |-> NotRead, response |-> <<>>, during_chat |-> FALSE]

\* a part of the file that no writer has filled
Hole == [hole |-> TRUE]

\* f.write at offset k of a file of records
WriteAt(data, k, record) ==
    IF k <= Len(data) THEN [data EXCEPT ![k] = record]
    ELSE data \o [i \in 1..(k - Len(data) - 1) |-> Hole] \o <<record>>

\* a thread pool would run a handler whenever it has a step to take
MayRun_ThreadPool(h) == TRUE

\* the event loop runs h: it is the running coroutine, or the loop is free
MayRun(h) == running = h \/ running = None

\* a chat request is in flight
ChatInFlight == \E c \in ChatIds : handlers[c].pc \notin {"not issued", "done"}

InitServer ==
    /\ pc = "serving"
    /\ cars = cars_json
    /\ handlers = [h \in HandlerIds |-> NewHandler]
    /\ running = None
    /\ suggested_json \in {NoFile, File(<<>>)}
    /\ http_response = NoResponse
    /\ ToolIdle
    /\ LoopIdle
    /\ FinIdle
    /\ WeightsIdle
    /\ ScoreIdle
    /\ ConvIdle
    /\ CallsIdle

\* the handlers touch nothing else
ServerRest ==
    UNCHANGED <<pc, cars, tool_call, tool_result, loopVars, http_response, finVars,
                weightVars, scoreVars, convVars, callVars>>

\* a request arrives; the server accepts it whatever is running
Issue ==
    \E h \in HandlerIds :
          /\ handlers[h].pc = "not issued"
          /\ handlers' = [handlers EXCEPT ![h].pc = "pending",
                                          ![h].during_chat = ChatInFlight]
          /\ UNCHANGED <<running, suggested_json>>
          /\ ServerRest

\* chat: await ai_agent.process_message(...) runs the tool loop to its end
ChatProcessMessage ==
    \E h \in ChatIds :
          /\ handlers[h].pc = "pending"
          /\ MayRun(h)
          /\ \E ids \in TurnIdLists :
                handlers' = [handlers EXCEPT
                                ![h].recommended_car_ids = ids,
                                ![h].pc = IF ids = <<>> THEN "respond" ELSE "open"]
          /\ running' = h
          /\ UNCHANGED suggested_json
          /\ ServerRest

\* _update_suggested_json: open(self.suggested_json_path, 'w')
ChatOpenFile ==
    \E h \in ChatIds :
          /\ handlers[h].pc = "open"
          /\ MayRun(h)
          /\ suggested_json' = [exists |-> TRUE, complete |-> FALSE, data |-> <<>>]
          /\ handlers' = [handlers EXCEPT ![h].pc = "dump", ![h].written = 0]
          /\ running' = h
          /\ ServerRest

\* json.dump writes the next record
ChatDump ==
    \E h \in ChatIds :
          /\ handlers[h].pc = "dump"
          /\ MayRun(h)
          /\ handlers[h].written
                < Len(suggested_cars(cars_json, handlers[h].recommended_car_ids))
          /\ suggested_json' =
                [suggested_json EXCEPT
                    !.data = WriteAt(@, handlers[h].written + 1,
                                     suggested_cars(cars_json, handlers[h].recommended_car_ids)
                                         [handlers[h].written + 1])]
          /\ handlers' = [handlers EXCEPT ![h].written = @ + 1]
          /\ running' = h
          /\ ServerRest

\* the with block ends: the closing bracket is written and the file closed
ChatCloseFile ==
    \E h \in ChatIds :
          /\ handlers[h].pc = "dump"
          /\ MayRun(h)
          /\ handlers[h].written
                = Len(suggested_cars(cars_json, handlers[h].recommended_car_ids))
          /\ suggested_json' = [suggested_json EXCEPT !.complete = TRUE]
          /\ handlers' = [handlers EXCEPT ![h].pc = "respond"]
          /\ running' = h
          /\ ServerRest

\* chat returns its ChatResponse and the loop is free again
ChatRespond ==
    \E h \in ChatIds :
          /\ handlers[h].pc = "respond"
          /\ MayRun(h)
          /\ handlers' = [handlers EXCEPT ![h].pc = "done"]
          /\ running' = None
          /\ UNCHANGED suggested_json
          /\ ServerRest

\* get_suggested_vehicles from its first statement to its return
GetSuggestedVehicles ==
    \E h \in {"get_suggested_vehicles"} :
          /\ handlers[h].pc = "pending"
          /\ MayRun(h)
          /\ suggested_json' = get_suggested_vehicles(suggested_json).file
          /\ handlers' = [handlers EXCEPT
                             ![h].seen = suggested_json,
                             ![h].response = get_suggested_vehicles(suggested_json).response,
                             ![h].pc = "done"]
          /\ running' = None
          /\ ServerRest

\* clear_suggested_vehicles from its first statement to its return
ClearSuggestedVehicles ==
    \E h \in {"clear_suggested_vehicles"} :
          /\ handlers[h].pc = "pending"
          /\ MayRun(h)
          /\ suggested_json' = File(<<>>)
          /\ handlers' = [handlers EXCEPT ![h].pc = "done"]
          /\ running' = None
          /\ ServerRest

NextServer ==
    \/ Issue
    \/ ChatProcessMessage
    \/ ChatOpenFile
    \/ ChatDump
    \/ ChatCloseFile
    \/ ChatRespond
    \/ GetSuggestedVehicles
    \/ ClearSuggestedVehicles

SpecServer == InitServer /\ [][NextServer]_vars

(***************************************************************************)
(* Properties of the affordability engine                                  *)
(***************************************************************************)
\* what the caller passed in and what the specification computes from it
SuppliedIncomeIsZero ==
    /\ Get(financial_profile, "monthly_income", 0) = 0
    /\ Get(financial_profile, "annual_income", 0) = 0

ArgPrice == Get(car, "base_msrp", 0)

\* supplied (or auto-defaulted) down payment plus trade-in value
ArgEffectiveDownPayment ==
    (IF Get(financial_profile, "down_payment", 0) = 0
         THEN ArgPrice \div 10 ELSE financial_profile["down_payment"])
    + Get(financial_profile, "trade_in_value", 0)

\* C1: evaluate_affordability returns affordable = true exactly when
\* monthly_income > 0, DTI <= 0.15 and the effective down payment (down
\* payment plus trade-in) is at least 10% of the price.
C1_AffordableIffEffectiveDownPayment ==
    Returned =>
        (affordability.affordable <=>
            /\ frame.monthly_income > 0
            /\ frame.dti_ratio <= 1500
            /\ 10 * ArgEffectiveDownPayment >= ArgPrice)

\* C6: evaluate_affordability never raises; it always returns an
\* AffordabilityResult.
C6_NeverRaises == pc = "done" => affordability.raised = ""

\* C7: when the resolved monthly income is 0, the returned
\* debt_to_income_ratio is 1.0 and affordable is False.
C7_ZeroIncomeUnaffordable ==
    (Returned /\ SuppliedIncomeIsZero) =>
        /\ affordability.debt_to_income_ratio = Unit
        /\ affordability.affordable = FALSE

C7_Witness ==
    /\ Returned /\ SuppliedIncomeIsZero
    /\ ArgPrice > 0
    /\ Get(financial_profile, "trade_in_value", 0) > 0

\* the DTI subscore as the specification states it, in 1/10000
StatedDtiSubscore(dti) ==
    IF dti <= 1000 THEN Unit
    ELSE IF dti <= 1500 THEN Unit - 8 * (dti - 1000)
    ELSE Max(0, 6000 - 2 * (dti - 1500))

\* min(1.0, (effective_down_payment / price) / 0.20), in 1/10000
StatedDownPaymentSubscore(dp, price) == Min(Unit, 5 * ((dp * Unit) \div price))

\* 0.7 * dti_subscore + 0.3 * down_payment_subscore clamped to [0,1], in 1/100000
StatedScore(dti, dp, price) ==
    Min(10 * Unit, Max(0, 7 * StatedDtiSubscore(dti) + 3 * StatedDownPaymentSubscore(dp, price)))

\* C8 as stated: for every input the affordability score is the weighted sum
\* of the DTI subscore and the down-payment subscore.
C8_ScoreFormulaEveryInput ==
    (Returned /\ ArgPrice > 0) =>
        affordability.affordability_score
            = StatedScore(frame.dti_ratio, ArgEffectiveDownPayment, ArgPrice)

\* C8 amended: the affordability score is 0.0 when the resolved monthly
\* income is 0; otherwise it is the weighted sum of the two subscores, the
\* down-payment subscore being 0 for a vehicle whose price is 0.
C8_ScoreFormula ==
    Returned =>
        affordability.affordability_score =
            IF frame.monthly_income = 0 THEN 0
            ELSE IF ArgPrice > 0
                THEN StatedScore(frame.dti_ratio, ArgEffectiveDownPayment, ArgPrice)
            ELSE Min(10 * Unit, 7 * StatedDtiSubscore(frame.dti_ratio))

C8_Witness ==
    /\ Returned
    /\ frame.monthly_income > 0
    /\ ArgPrice > 0
    /\ frame.dti_ratio > 1000 /\ frame.dti_ratio < 1500
    /\ 10 * ArgEffectiveDownPayment >= ArgPrice
    /\ 5 * ArgEffectiveDownPayment < ArgPrice

\* C12: when the financial profile supplies down_payment = 0 or omits it,
\* evaluate_affordability uses 10% of the vehicle price as the down payment:
\* down_payment_required = 0.10 * price + trade_in_value.
C12_DefaultDownPayment ==
    (Returned /\ Get(financial_profile, "down_payment", 0) = 0) =>
        affordability.down_payment_required
            = ArgPrice \div 10 + Get(financial_profile, "trade_in_value", 0)

C12_Witness ==
    /\ Returned
    /\ "down_payment" \notin DOMAIN financial_profile
    /\ ArgPrice = 20000
    /\ Get(financial_profile, "trade_in_value", 0) = 5000
    /\ affordability.down_payment_required = 7000

\* five years of the vehicle's operating costs, from the record passed in
ArgOperatingCosts5yr ==
    5 * (Get(car, "annual_fuel_cost", 1200) + Get(car, "annual_insurance", 1200)
         + Get(car, "annual_maintenance", 800))

\* C16: total_cost_5yr = monthly_payment * min(loan_term_months, 60)
\* + 5 * (annual_fuel_cost + annual_insurance + annual_maintenance); the
\* depreciation of 60% of the price is not added, so with the payment and the
\* operating costs fixed the total does not depend on the price.
C16_TotalCostFormula ==
    Returned =>
        affordability.total_cost_5yr
            = affordability.monthly_payment
                  * Min(Get(financial_profile, "loan_term_months", 60), 60)
              + ArgOperatingCosts5yr

C16_Witness ==
    /\ Returned
    /\ ArgPrice = 30000
    /\ "annual_insurance" \in DOMAIN car
    /\ Get(financial_profile, "loan_term_months", 60) = 72
    /\ affordability.monthly_payment > 0
    /\ affordability.total_cost_5yr = affordability.monthly_payment * 60 + 15500

\* the payment computation has returned, inside evaluate_affordability or on
\* its own
PaymentReturned == pc = "done" /\ frame.raised = ""

\* (1 + r/12)^n for the rate and term of the payment, in 1/1000000
GrowthFactor == PowFix(ONE + frame.interest_rate \div 12, frame.loan_term_months)

\* p is the amortized payment of the loan in whole dollars: it is the largest
\* whole number with p * ((1+r)^n - 1) <= loan * r * (1+r)^n
IsAmortizedPayment(p) ==
    LET due == frame.loan_amount * MulFix(frame.interest_rate \div 12, GrowthFactor)
    IN  /\ p * (GrowthFactor - ONE) <= due
        /\ due < (p + 1) * (GrowthFactor - ONE)

\* C17: the loan amount is max(0, price - effective_down_payment); the
\* monthly payment is 0 when the loan amount is <= 0, loan_amount /
\* loan_term_months when the annual rate is 0, and the amortized payment
\* otherwise; so it is never negative and is 0 whenever the effective down
\* payment is at least the price.
C17_LoanAndPayment ==
    PaymentReturned =>
        /\ Returned => frame.loan_amount = Max(0, ArgPrice - ArgEffectiveDownPayment)
        /\ frame.loan_amount <= 0 => frame.monthly_payment = 0
        /\ (frame.loan_amount > 0 /\ frame.interest_rate = 0) =>
               /\ frame.monthly_payment * frame.loan_term_months <= frame.loan_amount
               /\ frame.loan_amount < (frame.monthly_payment + 1) * frame.loan_term_months
        /\ (frame.loan_amount > 0 /\ frame.interest_rate # 0) =>
               IsAmortizedPayment(frame.monthly_payment)
        /\ frame.monthly_payment >= 0
        /\ (Returned /\ ArgEffectiveDownPayment >= ArgPrice) =>
               affordability.monthly_payment = 0
        /\ Returned => affordability.monthly_payment = frame.monthly_payment

\* a payment at rate 0 that divides the loan by the term
C17_Witness ==
    /\ PaymentReturned
    /\ frame.loan_amount = 24000
    /\ frame.interest_rate = 0
    /\ frame.loan_term_months = 60
    /\ frame.monthly_payment = 400

\* the annual rate the specification states for a credit score, in 1/1000000
StatedRate(fp) ==
    IF "credit_score" \notin DOMAIN fp THEN 69900
    ELSE LET cs == fp["credit_score"]
         IN  IF IsInt(cs) THEN
                 (IF cs.int >= 750 THEN 54900
                  ELSE IF cs.int >= 700 THEN 69900
                  ELSE IF cs.int >= 650 THEN 89900
                  ELSE IF cs.int >= 600 THEN 119900
                  ELSE 159900)
             ELSE
                 (CASE Lower(cs.str) = "excellent" -> 54900
                    [] Lower(cs.str) = "good" -> 69900
                    [] Lower(cs.str) = "fair" -> 89900
                    [] Lower(cs.str) = "poor" -> 119900
                    [] Lower(cs.str) = "very_poor" -> 159900
                    [] OTHER -> 69900)

ReasonTags == Range(affordability.reasons)

\* C29: the affordable flag and the reason tags of an AffordabilityResult
\* agree: whenever affordable is false, reasons contains
\* 'payment_too_high_for_income' or 'insufficient_down_payment', and whenever
\* affordable is true it contains one payment-ratio tag and one down-payment
\* tag.
C29_FlagAgreesWithReasons ==
    Returned =>
        IF affordability.affordable THEN
            /\ Cardinality(ReasonTags \cap {"excellent_payment_ratio",
                                            "acceptable_payment_ratio"}) = 1
            /\ Cardinality(ReasonTags \cap {"strong_down_payment",
                                            "adequate_down_payment"}) = 1
        ELSE
            ReasonTags \cap {"payment_too_high_for_income",
                             "insufficient_down_payment"} # {}

\* the second call of a pair has returned, and so had the first
BothReturned ==
    /\ pc = "done"
    /\ Len(calls) = 1
    /\ calls[1].result.raised = ""
    /\ affordability.raised = ""

\* the down payment supplied to the first and to the second call
FirstDownPayment == calls[1].argument.financial_profile["down_payment"]
SecondDownPayment == financial_profile["down_payment"]

\* the second call requires no lower a down payment and lends no more
NotLowerRequirement ==
    /\ calls[1].result.down_payment_required <= affordability.down_payment_required
    /\ calls[1].frame.loan_amount >= frame.loan_amount

\* C28 as stated: for a fixed vehicle, trade-in and other profile fields,
\* raising the supplied down_payment never lowers down_payment_required and
\* never raises the loan amount, for any d1 <= d2.
C28_RaisingDownPaymentAnyAmount ==
    (BothReturned /\ FirstDownPayment <= SecondDownPayment) => NotLowerRequirement

\* C28, amended: the same for any 0 < d1 <= d2; a supplied down_payment of 0
\* stands for the default of 10% of the price, which can exceed a supplied
\* positive amount.
C28_RaisingDownPayment ==
    (BothReturned /\ 0 < FirstDownPayment /\ FirstDownPayment <= SecondDownPayment)
        => NotLowerRequirement

\* a positive down payment was raised: the requirement rose with it and the
\* loan, already covered by down payment and trade-in, stayed at zero
C28_Witness ==
    /\ BothReturned
    /\ 0 < FirstDownPayment
    /\ FirstDownPayment < SecondDownPayment
    /\ calls[1].result.down_payment_required < affordability.down_payment_required
    /\ calls[1].frame.car_price < calls[1].frame.effective_down_payment
    /\ frame.loan_amount = 0

(***************************************************************************)
(* Properties of the weight policy                                         *)
(***************************************************************************)
WeightsReturned == pc = "done" /\ weights # NoWeights

\* the sum of the returned weight map, in 1/100
WeightSum == SumValues(weights)

TopIsListed == top_priority # None /\ top_priority \in Range(priorities)

\* the listed priorities that share 0.30
SharingPriorities ==
    IF TopIsListed THEN Range(priorities) \ {top_priority} ELSE Range(priorities)

\* the weight of a category before normalization as the specification states
\* it, in 1/42000
StatedRawWeight(category) ==
    IF TopIsListed /\ Get(priority_map, top_priority, None) = category
        THEN 18900
    ELSE IF \E p \in SharingPriorities : Get(priority_map, p, None) = category
        THEN 12600 \div Cardinality(SharingPriorities)
    ELSE 2520

StatedRawWeights == [c \in Range(all_categories) |-> StatedRawWeight(c)]

ScoresReturned == pc = "done" /\ scored_cars.raised = ""

\* the position of the car with this id in the catalog
CatalogIndex(id) == CHOOSE i \in 1..Len(cars) : cars[i].id = id

\* C2: every score returned by score_cars_for_user lies in [0, 1], for all
\* vehicles and all profiles, weight overrides included.
C2_ScoreInUnitInterval ==
    ScoresReturned =>
        \A i \in 1..Len(scored_cars.list) :
            scored_cars.list[i].score >= 0 /\ scored_cars.list[i].score <= 100

\* C4: score_cars_for_user returns exactly one {id, score, reasons} record
\* per catalog vehicle, by non-increasing rounded score, vehicles of equal
\* score in catalog order.
C4_StableDescendingSort ==
    ScoresReturned =>
        LET out == scored_cars.list
        IN  /\ Len(out) = Len(cars)
            /\ \A k \in 1..Len(cars) :
                   Cardinality({i \in 1..Len(out) : out[i].id = cars[k].id}) = 1
            /\ \A i \in 1..Len(out) : DOMAIN out[i] = {"id", "score", "reasons"}
            /\ \A i, j \in 1..Len(out) :
                   i < j =>
                       /\ out[i].score >= out[j].score
                       /\ out[i].score = out[j].score =>
                              CatalogIndex(out[i].id) < CatalogIndex(out[j].id)

C4_Witness ==
    /\ ScoresReturned
    /\ Len(scored_cars.list) = 2
    /\ scored_cars.list[1].score = scored_cars.list[2].score
    /\ scored_cars.list[1].id = "prius-xle-2020"
    /\ scored_cars.list[2].id = "prius-le-2020"

\* C5: score_cars_for_user never raises for a partial or malformed profile;
\* a score list is returned.
C5_ScoringNeverRaises == pc = "done" => scored_cars.raised = ""

\* whether the wanted feature at position w counts as matched for car k
WantedMatched(k, w) ==
    FeatureStep(cars[k], DriverAssistLower(cars[k]),
                user_profile["features_wanted"].list[w]).matches > 0

\* C9: for a non-empty features_wanted list the features factor is
\* matched_count / wanted_count, each wanted feature counted at most once,
\* so it lies in [0,1]; 'feature_rich' is emitted exactly when it is >= 0.8.
C9_FeaturesFactorIsMatchRatio ==
    (/\ pc = "done"
     /\ "features_wanted" \in DOMAIN user_profile
     /\ Truthy(user_profile["features_wanted"])) =>
        \A k \in 1..Len(cars) :
            LET wanted_count == Len(user_profile["features_wanted"].list)
                matched_count ==
                    Cardinality({w \in 1..wanted_count : WantedMatched(k, w)})
                features == factors[k][7]
            IN  /\ features.score = (matched_count * Unit) \div wanted_count
                /\ features.score >= 0 /\ features.score <= Unit
                /\ ("feature_rich" \in Range(features.reasons))
                       <=> (10 * features.score >= 8 * Unit)

\* the caller's weights map, empty when it is missing or null
CallerWeights ==
    IF "weights" \in DOMAIN user_profile /\ "dict" \in DOMAIN user_profile["weights"]
        THEN user_profile["weights"].dict ELSE <<>>

\* the weight vector as the specification states it, in 1/100
StatedWeights ==
    LET defaults == [budget |-> 20, fuel_efficiency |-> 20, seating |-> 15,
                     drivetrain |-> 10, vehicle_type |-> 10, performance |-> 10,
                     features |-> 10, safety |-> 5]
    IN  [k \in DOMAIN defaults |->
            IF k \in DOMAIN CallerWeights THEN CallerWeights[k] ELSE defaults[k]]

\* the weighted sum of the eight factor scores of catalog car k, in 1/1000000
StatedWeightedSum(k) ==
      StatedWeights["budget"] * factors[k][1].score
    + StatedWeights["fuel_efficiency"] * factors[k][2].score
    + StatedWeights["seating"] * factors[k][3].score
    + StatedWeights["drivetrain"] * factors[k][4].score
    + StatedWeights["vehicle_type"] * factors[k][5].score
    + StatedWeights["performance"] * factors[k][6].score
    + StatedWeights["features"] * factors[k][7].score
    + StatedWeights["safety"] * factors[k][8].score

\* C15: the weight vector used to score a car is the default vector with
\* every key of profile['weights'] replaced by the caller's value and every
\* other key at its default; it is not renormalized, and a missing, null or
\* empty weights map gives exactly the defaults.
C15_WeightsOverlayDefaults ==
    ScoresReturned =>
        /\ _get_weights(user_profile) = StatedWeights
        /\ CallerWeights = <<>> => _get_weights(user_profile) = DEFAULT_WEIGHTS
        /\ \A i \in 1..Len(scored_cars.list) :
               scored_cars.list[i].score
                   = Round2(StatedWeightedSum(CatalogIndex(scored_cars.list[i].id)))

\* an override of one key that makes the weights sum to 1.7: the score
\* exceeds 1 because nothing is renormalized
C15_Witness ==
    /\ ScoresReturned
    /\ CallerWeights = [fuel_efficiency |-> 90]
    /\ Len(scored_cars.list) = 2
    /\ scored_cars.list[1].score > 100
    /\ scored_cars.list[2].score < scored_cars.list[1].score

\* the factor of the only vehicle of a one-vehicle catalog has been computed
FactorComputed(i) == pc = "done" /\ Len(cars) = 1 /\ factors[1][i].raised = ""

\* budget_max as the call reads it
BudgetMax == Get(user_profile, "budget_max", [int |-> 50000]).int

\* C18: the budget factor is 1 - 0.3 * (price / budget_max) with the tag
\* 'within_budget' when price <= budget_max, plus 'under_budget' when
\* price <= 0.8 * budget_max, and 0.2 with no tags when price > budget_max;
\* budget_max 50000 and price 45000 give 0.73 with 'within_budget' only.
C18_BudgetFactor ==
    FactorComputed(1) =>
        LET price == _get_price(cars[1])
            budget == factors[1][1]
            charged == Unit - budget.score
        IN  /\ price <= BudgetMax =>
                 /\ charged * BudgetMax <= 3000 * price
                 /\ 3000 * price < (charged + 1) * BudgetMax
                 /\ budget.reasons =
                        IF 10 * price <= 8 * BudgetMax
                            THEN <<"within_budget", "under_budget">>
                            ELSE <<"within_budget">>
            /\ price > BudgetMax => budget.score = 2000 /\ budget.reasons = <<>>
            /\ (price = 45000 /\ BudgetMax = 50000) =>
                   budget.score = 7300 /\ budget.reasons = <<"within_budget">>

C18_Witness ==
    /\ FactorComputed(1)
    /\ "budget_max" \in DOMAIN user_profile
    /\ BudgetMax = 50000
    /\ _get_price(cars[1]) = 45000
    /\ factors[1][1].score = 7300
    /\ factors[1][1].reasons = <<"within_budget">>

\* twice the average of the city and highway figures of the vehicle scored
TwiceAvgMpg == _get_mpg_city(cars[1]) + _get_mpg_hwy(cars[1])

\* commute_miles is present and above 30
LongCommute ==
    "commute_miles" \in DOMAIN user_profile /\ user_profile["commute_miles"].int > 30

\* the tag for the fuel type, which comes first
StatedEcoTag ==
    IF _get_fuel_type(cars[1]) \in {"hybrid", "electric", "plug_in_hybrid"}
        THEN <<"eco_friendly">> ELSE <<>>

\* C19: with avg = (mpg_city + mpg_hwy) / 2, for commute_miles > 30 the
\* fuel-efficiency factor is 1.0 ('excellent_mpg') for avg >= 40, 0.8
\* ('good_mpg') for avg >= 30, 0.6 ('decent_mpg') for avg >= 25 and 0.3
\* otherwise; for commute_miles <= 30 or absent it is 0.7 with 'good_mpg' iff
\* avg >= 30; 'eco_friendly' is added in either branch iff the fuel type is
\* hybrid, electric or plug_in_hybrid, and it precedes the mpg tag.
C19_FuelEfficiencyFactor ==
    FactorComputed(2) =>
        LET fuel == factors[1][2]
        IN  IF LongCommute THEN
                IF TwiceAvgMpg >= 80 THEN
                    fuel.score = Unit /\ fuel.reasons = StatedEcoTag \o <<"excellent_mpg">>
                ELSE IF TwiceAvgMpg >= 60 THEN
                    fuel.score = 8000 /\ fuel.reasons = StatedEcoTag \o <<"good_mpg">>
                ELSE IF TwiceAvgMpg >= 50 THEN
                    fuel.score = 6000 /\ fuel.reasons = StatedEcoTag \o <<"decent_mpg">>
                ELSE fuel.score = 3000 /\ fuel.reasons = StatedEcoTag
            ELSE
                /\ fuel.score = 7000
                /\ fuel.reasons =
                       StatedEcoTag \o (IF TwiceAvgMpg >= 60 THEN <<"good_mpg">> ELSE <<>>)

\* a hybrid of average 39.5 mpg on a 31-mile commute
C19_Witness ==
    /\ FactorComputed(2)
    /\ LongCommute
    /\ user_profile["commute_miles"].int = 31
    /\ TwiceAvgMpg = 79
    /\ factors[1][2].score = 8000
    /\ factors[1][2].reasons = <<"eco_friendly", "good_mpg">>

\* has_children is present and true
HasChildren ==
    "has_children" \in DOMAIN user_profile /\ user_profile["has_children"].bool

\* terrain is present and 'offroad'
OffroadTerrain ==
    "terrain" \in DOMAIN user_profile /\ user_profile["terrain"].str = "offroad"

\* C20: has_children takes precedence over terrain: with children the
\* vehicle-type factor is 1.0 ('family_friendly') for suv/minivan or seats >= 7,
\* 0.7 for sedan, else 0.5, whatever the terrain; without children and with
\* terrain 'offroad' it is 1.0 ('offroad_capable') for an offroad-capable
\* vehicle or a truck, 0.8 ('good_clearance') for ground clearance >= 8 in,
\* else 0.5; otherwise 0.9 ('efficient_choice') for sedan/hatchback and 0.8
\* for anything else.
C20_VehicleTypeFactor ==
    FactorComputed(5) =>
        LET type == factors[1][5]
            style == _get_body_style(cars[1])
        IN  IF HasChildren THEN
                IF style \in {"suv", "minivan"} \/ _get_seating(cars[1]) >= 7
                    THEN type.score = Unit /\ type.reasons = <<"family_friendly">>
                ELSE IF style = "sedan" THEN type.score = 7000 /\ type.reasons = <<>>
                ELSE type.score = 5000 /\ type.reasons = <<>>
            ELSE IF OffroadTerrain THEN
                IF _is_offroad_capable(cars[1]) \/ style = "truck"
                    THEN type.score = Unit /\ type.reasons = <<"offroad_capable">>
                ELSE IF _get_ground_clearance(cars[1]) >= 80
                    THEN type.score = 8000 /\ type.reasons = <<"good_clearance">>
                ELSE type.score = 5000 /\ type.reasons = <<>>
            ELSE IF style \in {"sedan", "hatchback"}
                THEN type.score = 9000 /\ type.reasons = <<"efficient_choice">>
            ELSE type.score = 8000 /\ type.reasons = <<>>

\* an offroad-capable truck scored for a family on offroad terrain
C20_Witness ==
    /\ FactorComputed(5)
    /\ HasChildren
    /\ OffroadTerrain
    /\ _get_body_style(cars[1]) = "truck"
    /\ _is_offroad_capable(cars[1])
    /\ _get_seating(cars[1]) = 5
    /\ factors[1][5].score = 5000
    /\ factors[1][5].reasons = <<>>

(***************************************************************************)
(* Properties of the conversation merge                                    *)
(***************************************************************************)
\* the keys of an extractor's result (None has no keys)
Keys(profile) == IF profile = PyNone THEN {} ELSE DOMAIN profile

\* what the user-profile extractor yields for each of the first n messages
\* when applied to the messages of role "user" only
RECURSIVE UserYields(_)
UserYields(n) ==
    IF n = 0 THEN <<>>
    ELSE Append(UserYields(n - 1),
                IF messages[n].role = "user"
                THEN _extract_user_profile(messages[n].content) ELSE PyNone)

RECURSIVE FinancialYields(_)
FinancialYields(n) ==
    IF n = 0 THEN <<>>
    ELSE Append(FinancialYields(n - 1),
                IF messages[n].role = "user"
                THEN _extract_financial_profile(messages[n].content) ELSE PyNone)

\* merged holds exactly the keys that some yield holds, each with the value
\* of the latest yield that holds it
LatestWins(merged, yields, keys) ==
    /\ DOMAIN merged \cap keys = UNION { Keys(yields[i]) : i \in DOMAIN yields } \cap keys
    /\ \A key \in DOMAIN merged \cap keys :
          \E i \in DOMAIN yields :
              /\ key \in Keys(yields[i])
              /\ \A j \in DOMAIN yields : j > i => key \notin Keys(yields[j])
              /\ merged[key] = yields[i][key]

user_keys ==
    {"budget_max", "budget_is_total_cost", "budget_max_estimated_base",
     "budget_flexible", "passengers", "commute_miles", "has_children", "terrain",
     "needs_ground_clearance", "top_priority", "priorities", "features_wanted"}

financial_keys ==
    {"monthly_income", "annual_income", "ambiguous_income",
     "ambiguous_income_likely_annual", "down_payment", "credit_score",
     "loan_term_months", "trade_in_value"}

\* C10: after every iteration of the merge loop, and in the returned pair, each
\* scalar field of the merged user and financial profiles has the value of the
\* latest message of role "user" whose extraction yielded it; priorities and
\* features_wanted are the latest yielded lists as they were yielded (no union
\* with an earlier list); messages of any other role contribute nothing.
C10_LatestUserMessageWins ==
    LET n == IF pc = "done" THEN Len(messages) ELSE msg_index - 1
    IN  /\ LatestWins(merged_user, UserYields(n), user_keys)
        /\ LatestWins(merged_financial, FinancialYields(n), financial_keys)
        /\ DOMAIN merged_user \subseteq user_keys \cup {"weights"}
        /\ DOMAIN merged_financial \subseteq financial_keys
        /\ extracted.returned =>
              /\ extracted.user_profile = OrNone(merged_user)
              /\ extracted.financial_profile = OrNone(merged_financial)

\* a returned merge of two user messages that yield different budgets and
\* different lists, followed by an agent message whose text states a third budget
C10_Witness ==
    /\ pc = "done"
    /\ extracted.returned
    /\ \E i, j, k \in DOMAIN messages :
          /\ i < j /\ j < k
          /\ messages[i].role = "user"
          /\ messages[j].role = "user"
          /\ messages[k].role = "agent"
          /\ LET a == _extract_user_profile(messages[i].content)
                 b == _extract_user_profile(messages[j].content)
                 c == _extract_user_profile(messages[k].content)
             IN  /\ "budget_max" \in Keys(a) \cap Keys(b) \cap Keys(c)
                 /\ a.budget_max # b.budget_max
                 /\ c.budget_max # b.budget_max
                 /\ extracted.user_profile.budget_max = b.budget_max
                 /\ "features_wanted" \in Keys(a) \cap Keys(b)
                 /\ Range(a.features_wanted.list) \ Range(b.features_wanted.list) # {}
                 /\ extracted.user_profile.features_wanted = b.features_wanted

\* the positions of the messages of role "user" that state a monthly or an
\* annual income
IncomeStatements ==
    { i \in DOMAIN messages :
        /\ messages[i].role = "user"
        /\ Keys(_extract_financial_profile(messages[i].content))
               \cap {"monthly_income", "annual_income"} # {} }

\* the monthly income stated by message i: a monthly figure as it is, an
\* annual figure divided by 12
StatedMonthlyIncome(i) ==
    LET stated == _extract_financial_profile(messages[i].content)
    IN  IF "monthly_income" \in DOMAIN stated THEN stated["monthly_income"]
        ELSE stated["annual_income"] \div 12

\* C21: when the financial profile merged from a conversation is passed to
\* evaluate_affordability, the monthly income it resolves is the one stated
\* by the most recent user message that stated an income (monthly as it is,
\* annual divided by 12), whatever form earlier messages used.
C21_LatestIncomeResolved ==
    (pc = "done" /\ extracted.returned /\ IncomeStatements # {}) =>
        LET latest == CHOOSE i \in IncomeStatements :
                          \A j \in IncomeStatements : j <= i
        IN  ResolveMonthlyIncome(extracted.financial_profile)
                = StatedMonthlyIncome(latest)


\* C26: in the profile merged from a conversation, top_priority (when
\* present) is a member of the merged priorities list and is its first
\* element, and the merged weights are the weights derived from that
\* priorities list and top_priority.
C26_TopPriorityLeadsPriorities ==
    (pc = "done" /\ extracted.returned
        /\ "top_priority" \in Keys(extracted.user_profile)) =>
        LET profile == extracted.user_profile
            top == profile["top_priority"].str
        IN  /\ "priorities" \in DOMAIN profile
            /\ profile["priorities"].list # <<>>
            /\ Head(profile["priorities"].list) = top
            /\ "weights" \in DOMAIN profile
            /\ profile["weights"].dict
                   = _priorities_to_weights(profile["priorities"].list, top)

\* a user message of the conversation states a monthly or an annual income
ExplicitIncomeStated == IncomeStatements # {}

\* a question that asks whether the income is per month or per year
IsPeriodQuestion(question) ==
    Contains("per month or per year", question)
        \/ Contains("per year or per month", question)

\* C27: once a user message has stated an explicit monthly or annual income,
\* the missing-information analysis of the merged conversation profile does
\* not request income clarification: needs_income_clarification is false and
\* no 'per month or per year' question is suggested, even if an earlier
\* message gave an income with no period.
C27_NoClarificationAfterExplicitIncome ==
    (pc = "analyzed" /\ ExplicitIncomeStated) =>
        /\ ~missing_info.needs_income_clarification
        /\ \A i \in DOMAIN missing_info.suggested_questions :
               ~IsPeriodQuestion(missing_info.suggested_questions[i])

(***************************************************************************)
(* Properties of the agent's tools                                         *)
(***************************************************************************)
ToolReturned == pc = "done" /\ tool_result.raised # "not called"

\* the call returned a dict with the key "error"
IsErrorResult ==
    /\ tool_result.raised = ""
    /\ "dict" \in DOMAIN tool_result.value
    /\ "error" \in DOMAIN tool_result.value.dict

ErrorText == tool_result.value.dict["error"]

\* the vehicle_id of the call, None when the arguments have none
CalledVehicleId ==
    IF IsDict(tool_call.arguments)
        THEN Get(tool_call.arguments.dict, "vehicle_id", PyNone) ELSE PyNone

CatalogIds == { tool_call.catalog[i].id : i \in DOMAIN tool_call.catalog }

NeedsVehicleId == tool_call.tool_name \in {"evaluate_affordability", "get_car_details"}

KnownTools ==
    {"score_cars_for_user", "evaluate_affordability", "get_all_cars", "get_car_details"}

\* C25: AIAgent._execute_tool never raises and reports failures as values:
\* an unknown tool name returns {'error': 'Unknown tool: ...'},
\* evaluate_affordability or get_car_details without vehicle_id returns an
\* error, an id that is not in the catalog returns a 'not found' error, an
\* exception inside a tool is returned as an error dict, and in every error
\* case the catalog is unchanged.
C25_ToolErrorsAreValues ==
    ToolReturned =>
        /\ tool_result.raised = ""
        /\ tool_call.tool_name \notin KnownTools =>
               /\ IsErrorResult
               /\ ErrorText = "Unknown tool: " \o tool_call.tool_name
        /\ (NeedsVehicleId /\ IsDict(tool_call.arguments) /\ ~Truthy(CalledVehicleId)) =>
               /\ IsErrorResult
               /\ ErrorText = "vehicle_id is required"
        /\ (NeedsVehicleId /\ Truthy(CalledVehicleId)
                /\ CalledVehicleId.str \notin CatalogIds) =>
               /\ IsErrorResult
               /\ ErrorText = "Vehicle " \o CalledVehicleId.str \o " not found"
        /\ ToolBody(tool_call.catalog, tool_call.tool_name,
                    tool_call.arguments).raised # "" =>
               /\ IsErrorResult
               /\ Contains("Error executing tool " \o tool_call.tool_name, ErrorText)
        /\ IsErrorResult => cars = tool_call.catalog

\* an exception inside the affordability engine came back as an error dict,
\* and the catalog is as it was
C25_Witness ==
    /\ ToolReturned
    /\ tool_call.tool_name = "evaluate_affordability"
    /\ Truthy(CalledVehicleId)
    /\ CalledVehicleId.str \in CatalogIds
    /\ IsErrorResult
    /\ ErrorText = "Error executing tool evaluate_affordability: ZeroDivisionError"
    /\ cars = tool_call.catalog
    /\ cars # <<>>

(***************************************************************************)
(* Properties of a session of calls                                        *)
(***************************************************************************)
ScoreCalls == {i \in 1..Len(calls) : calls[i].tool = "score_cars_for_user"}

NormalReturn ==
    /\ pc = "returned"
    /\ agent_class = "AIAgent"
    /\ process_result.returned_at \in {"answer", "forced", "forced call raised"}

\* the ids of a list of scored cars, in its order
IdList(list) == [i \in DOMAIN list |-> list[i].id]

ScoresDescend(list) ==
    \A i, j \in DOMAIN list : i < j => list[i].score >= list[j].score

\* the last tool call of the run was a scoring call that came back as an error
LastCallFailedScoring ==
    /\ tool_call # NoToolCall
    /\ tool_call.tool_name = "score_cars_for_user"
    /\ "dict" \in DOMAIN tool_result.value
    /\ "error" \in DOMAIN tool_result.value.dict

\* C24: on a normal return of AIAgent.process_message, recommended_car_ids
\* is exactly the id list (at most 10 ids, in descending score order) of the
\* most recent score_cars_for_user tool call of the run that returned a
\* list, and is empty if there was none; a later scoring call that fails
\* does not clear it, and no other tool supplies ids.
C24_IdsOfLastScoringCall ==
    NormalReturn =>
        IF last_scored = NoList THEN process_result.recommended_car_ids = <<>>
        ELSE /\ process_result.recommended_car_ids = IdList(last_scored.list)
             /\ Len(process_result.recommended_car_ids) <= 10
             /\ ScoresDescend(last_scored.list)

\* ten ids were returned although the last tool call, a scoring call, failed
C24_Witness ==
    /\ NormalReturn
    /\ LastCallFailedScoring
    /\ Len(process_result.recommended_car_ids) = 10
    /\ process_result.recommended_car_ids = IdList(last_scored.list)
    /\ process_result.scoring_method = "preference_based"

(***************************************************************************)
(* Properties of suggested.json                                            *)
(***************************************************************************)
\* what GET /vehicles/suggested finds in the file: a missing file is empty
Content(file) == IF file.exists THEN file.data ELSE <<>>

\* the catalog record of an id
CatalogRecord(id) == CHOOSE c \in Range(cars_json) : c.id = id

\* the full catalog records of a list of ids, in its order
CatalogRecords(ids) == [i \in DOMAIN ids |-> CatalogRecord(ids[i])]

\* this step returns from AIAgent.process_message: a chat turn ends
ChatTurnReturns ==
    /\ pc # "returned"
    /\ pc' = "returned"
    /\ agent_class' = "AIAgent"

\* this step is the handling of a request to the clear endpoint
ClearHandled ==
    /\ pc = "idle"
    /\ http_response' = [handler |-> "clear_suggested_vehicles", status |-> "success"]

\* this step is the handling of GET /vehicles/suggested
GetHandled ==
    /\ pc = "idle"
    /\ pc' = "idle"
    /\ http_response'.handler = "get_suggested_vehicles"

C22_Step ==
    /\ ChatTurnReturns =>
          IF process_result'.recommended_car_ids # <<>>
              THEN suggested_json' =
                       File(CatalogRecords(process_result'.recommended_car_ids))
          ELSE suggested_json' = suggested_json
    /\ Content(suggested_json') # Content(suggested_json) =>
          \/ ChatTurnReturns /\ process_result'.recommended_car_ids # <<>>
          \/ ClearHandled /\ Content(suggested_json') = <<>>
    /\ (GetHandled /\ Range(Content(suggested_json)) \subseteq Range(cars_json)) =>
          http_response'.vehicles = Content(suggested_json)

\* C22: after any sequence of chat turns suggested.json (served by GET
\* /vehicles/suggested) holds the full catalog records, in recommended
\* order, of the most recent turn whose recommended-id list was not empty: a
\* turn that returns ids writes their records, a turn with an empty list
\* leaves the file unchanged, and only the clear endpoint empties it.
C22_SuggestedFollowsLastRecommendation == [][C22_Step]_vars

\* a turn returned no ids and the file still holds the ten records, not in
\* catalog order, that an earlier turn wrote
C22_Witness ==
    /\ pc = "returned"
    /\ agent_class = "AIAgent"
    /\ process_result.returned_at = "answer"
    /\ process_result.recommended_car_ids = <<>>
    /\ model_calls.auto > 1
    /\ Len(Content(suggested_json)) = 10
    /\ suggested_json.data[1].id = "toyota-2"
    /\ suggested_json.data[1] = cars_json[2]

(***************************************************************************)
(* Termination of the tool-calling loop                                    *)
(***************************************************************************)
InLoop == pc = "loop"

ProcessMessageReturned == pc = "returned" /\ process_result # NoReturn

\* at most 10 calls with tools enabled (5 in NemotronOrchestrator), then at
\* most one call with tool_choice="none"
CallsWithinLimits ==
    agent_class # None =>
        /\ model_calls.auto <= (IF agent_class = "AIAgent" THEN 10 ELSE 5)
        /\ model_calls.none <= 1
        /\ model_calls.none = 1 =>
               model_calls.auto = (IF agent_class = "AIAgent" THEN 10 ELSE 5)

\* no call of _execute_tool raised
ToolExceptionsAreValues == tool_result.raised \in {"", "not called"}

\* the method returned because a model call raised
ReturnedAfterException ==
    /\ ProcessMessageReturned
    /\ process_result.returned_at \in {"except", "forced call raised"}

\* the error message of the outer except clause
IsErrorReturn ==
    IF agent_class = "AIAgent" THEN
        process_result =
            AgentReturn("I encountered an error while processing your request. Please try again.",
                        <<>>, None, "except")
    ELSE process_result = NemotronReturn("Error: APIError", "except")

\* the answer of AIAgent when its forced call raised: a fallback text with
\* the ids and the scoring method collected so far
IsFallbackReturn ==
    /\ agent_class = "AIAgent"
    /\ process_result.recommended_car_ids = recommended_car_ids_list
    /\ process_result.scoring_method = scoring_method
    /\ process_result.text =
          IF recommended_car_ids_list # <<>>
              THEN FoundText(Len(recommended_car_ids_list))
          ELSE "I encountered an issue processing your request. Please try again."

\* C23 as stated: the loop always terminates, with at most 10 tool-enabled
\* model calls (5 in NemotronOrchestrator) and then at most one forced call,
\* and returns a result in every case; any exception from the model client
\* or a tool is turned into the returned error message, with empty
\* recommended ids and scoring_method None for AIAgent.
C23_ExceptionsGiveErrorReturn ==
    /\ [](CallsWithinLimits /\ ToolExceptionsAreValues)
    /\ [](ReturnedAfterException => IsErrorReturn)
    /\ InLoop ~> ProcessMessageReturned

\* C23 amended: the loop always terminates within the same limits and
\* returns a result in every case; an exception inside a tool goes back to
\* the model as an error result and the loop goes on; an exception from a
\* tool-enabled model call (in NemotronOrchestrator from the forced call
\* too) gives the error message, with empty ids and scoring_method None for
\* AIAgent; an exception from the forced call of AIAgent gives a fallback
\* message together with the ids and the scoring method collected so far.
C23_LoopTerminates ==
    /\ [](CallsWithinLimits /\ ToolExceptionsAreValues)
    /\ [](ReturnedAfterException =>
            IF process_result.returned_at = "except" THEN IsErrorReturn
            ELSE IsFallbackReturn)
    /\ InLoop ~> ProcessMessageReturned

\* ten tool-enabled calls, then the forced call raised: ten ids and the
\* scoring method came back with the fallback text
C23_Witness ==
    /\ ReturnedAfterException
    /\ agent_class = "AIAgent"
    /\ model_calls = [auto |-> 10, none |-> 1]
    /\ Len(process_result.recommended_car_ids) = 10
    /\ process_result.scoring_method = "preference_based"
    /\ process_result.text = FoundText(10)

(***************************************************************************)
(* Properties of the server's handlers                                     *)
(***************************************************************************)
\* the lists one chat turn writes in full, and the cleared empty list
WholeLists ==
    { suggested_cars(cars_json, ids) : ids \in TurnIdLists \ {<<>>} } \cup {<<>>}

\* GET /vehicles/suggested has been handled
GetWasHandled(h) == handlers[h].pc = "done" /\ handlers[h].seen # NotRead

\* C30: within one server process the request handlers never interleave
\* inside a write of suggested.json: a GET /vehicles/suggested issued while
\* chat requests are in flight always observes one complete list written by
\* a single chat turn (or the cleared empty list), never a partially
\* written or mixed list.
C30_GetObservesWholeList ==
    /\ \A h \in DOMAIN handlers :
          GetWasHandled(h) =>
              /\ handlers[h].seen.exists => handlers[h].seen.complete
              /\ Content(handlers[h].seen) \in WholeLists
              /\ handlers[h].response = Content(handlers[h].seen)
    /\ \A c \in DOMAIN handlers :
          handlers[c].pc \in {"open", "dump", "respond"} => running = c

\* a GET that arrived while a chat request was in flight was served the two
\* records of the turn that ran before it; the other chat turn is still
\* waiting for the loop
C30_Witness ==
    /\ handlers # <<>>
    /\ GetWasHandled("get_suggested_vehicles")
    /\ handlers["get_suggested_vehicles"].during_chat
    /\ handlers["get_suggested_vehicles"].response
          = suggested_cars(cars_json, <<"toyota-2", "toyota-1">>)
    /\ handlers["chat1"].pc = "done"
    /\ handlers["chat2"].pc = "pending"

====
